---- MODULE Spec2Model ----
(***************************************************************************)
(* Access scoping of the multi-tenant task manager backend.                *)
(*                                                                         *)
(* The state is the document store (companies, departments, users, tasks,  *)
(* routine tasks, task activities, notifications) plus `last`, the         *)
(* response to the most recent HTTP request together with the facts about  *)
(* that request (who asked, how the target relates to the actor) as they   *)
(* stood when the request arrived.  Every route is the chain of its        *)
(* middlewares and its controller; a route operator returns the response   *)
(* the chain ends with, and the route's action applies the controller's    *)
(* writes when that response is a success.                                 *)
(*                                                                         *)
(* Documents are kept as functions from the ids in use to records.  Ids    *)
(* are never reused (seq holds the last id handed out per collection), as  *)
(* ObjectIds are not.  Notifications carry no id: two notifications equal  *)
(* in every modelled field are one element of the set.                     *)
(***************************************************************************)
EXTENDS Integers, FiniteSets, Sequences, TLC

\* ------------------------------------------------------------------ bounds
MaxUsers ==
  3

MaxDepts ==
  4

MaxTasks ==
  2

MaxRoutine ==
  2

MaxActs ==
  2

MaxCompanies ==
  3
MaxAttach ==
  1
MaxPerformed ==
  1

MaxNotifs ==
  1

UserIds == 1..MaxUsers
DeptIds == 1..MaxDepts
TaskIds == 1..MaxTasks
RoutineIds == 1..MaxRoutine
ActIds == 1..MaxActs
CompanyIds == 1..MaxCompanies

\* The roles a request body may name (validation.js) ...
BodyRoles == {"SuperAdmin", "Admin", "Manager", "User"}
\* ... and the roles the User schema stores.
SchemaRoles == {"SuperAdmin", "Manager", "User"}


\* deleting: the deleteUser requests that have passed their checks and not
\* yet written (a handler runs as separate awaits, not as a transaction).
\* superAdmins: the superAdmins array of each company document.
VARIABLES companies, depts, users, tasks, rtasks, acts, notifs, seq, last, deleting,
          superAdmins

db == <<companies, depts, users, tasks, rtasks, acts, notifs, seq, deleting, superAdmins>>
vars == <<companies, depts, users, tasks, rtasks, acts, notifs, seq, last, deleting, superAdmins>>

\* ------------------------------------------------------------- responses
R(s, c) == [status |-> s, code |-> c]
Ok == R(200, "OK")
Created == R(201, "OK")
\* A middleware that calls next() without an error.
Pass == R(0, "next")
\* The chain: the first middleware that reports an error ends the request.
Then(m, r) == IF m.status = 0 THEN r ELSE m
Success(r) == r.status \in {200, 201}
\* An exception that is not a CustomError (a TypeError on a missing populated
\* document, a schema validation error) reaches the error handler as it is.
Thrown(name) == R(500, name)

\* ------------------------------------------------------------ the request
isSuperAdmin(userRole) == userRole = "SuperAdmin"
hasDepartmentAccess(userRole) == userRole \in {"Admin", "Manager"}

\* req.user: the stored user the token names.  A deactivated account and an
\* account of a deactivated or deleted company get no token (loginUser,
\* getRefreshToken).  Requests are sent by the accounts of company 1; company
\* 2 is the tenant on the other side of the line, whose documents every
\* request of company 1 may name.
Actors ==
  {a \in DOMAIN users : /\ users[a].isActive
                        /\ users[a].company = 1
                        /\ 1 \in DOMAIN companies
                        /\ companies[1].isActive}
Role(a) == users[a].role
Co(a) == users[a].company
Dept(a) == users[a].department

\* Facts about a request, taken when it arrives.
NoFacts ==
  [exists |-> FALSE, sameCo |-> FALSE, sameDept |-> FALSE, assigned |-> FALSE,
   self |-> FALSE]

Facts(ex, co, dp, asg, sf) ==
  [exists |-> ex, sameCo |-> ex /\ co, sameDept |-> ex /\ dp,
   assigned |-> ex /\ asg, self |-> ex /\ sf]

\* The response as recorded: endpoint, the actor's role, the facts, the
\* outcome, and what the rows sent back (populated references included) and
\* the documents written tell about scope.
Respond(ep, a, f, r, foreign, outDept) ==
  [ep |-> ep, role |-> Role(a), exists |-> f.exists, sameCo |-> f.sameCo,
   sameDept |-> f.sameDept, assigned |-> f.assigned, self |-> f.self,
   status |-> r.status, code |-> r.code,
   foreign |-> Success(r) /\ foreign, outDept |-> Success(r) /\ outDept]

\* Two companies have registered (registerUser: company, first department,
\* SuperAdmin).  Company 1 has opened a second department, 3.  Company 2 holds
\* one document of each kind: an assigned task of its SuperAdmin with the
\* notification createAssignedTask sent, a routine task and a task activity.
InitialStore ==
  [companies |-> (1 :> [isActive |-> TRUE]) @@ (2 :> [isActive |-> TRUE]),
   superAdmins |-> (1 :> {1}) @@ (2 :> {2}),
   depts |-> (1 :> [company |-> 1, managers |-> {1}])
          @@ (2 :> [company |-> 2, managers |-> {2}])
          @@ (3 :> [company |-> 1, managers |-> {}]),
   users |-> (1 :> [company |-> 1, department |-> 1, role |-> "SuperAdmin", isActive |-> TRUE])
          @@ (2 :> [company |-> 2, department |-> 2, role |-> "SuperAdmin", isActive |-> TRUE]),
   tasks |-> (1 :> [taskType |-> "AssignedTask", company |-> 2, department |-> 2,
                    createdBy |-> 2, assignedTo |-> {2}, status |-> "To Do"]),
   rtasks |-> (1 :> [company |-> 2, department |-> 2, performedBy |-> 2,
                     performedTasks |-> <<FALSE>>, progress |-> 0, attachments |-> 0]),
   acts |-> (1 :> [task |-> 1, performedBy |-> 2, attachments |-> 0]),
   notifs |-> {[user |-> 2, company |-> 2, task |-> 1, isRead |-> FALSE]},
   seq |-> [company |-> 2, dept |-> 3, user |-> 2, task |-> 1, rtask |-> 1, act |-> 1]]

Init ==
  /\ companies = InitialStore.companies
  /\ depts = InitialStore.depts
  /\ users = InitialStore.users
  /\ tasks = InitialStore.tasks
  /\ rtasks = InitialStore.rtasks
  /\ acts = InitialStore.acts
  /\ notifs = InitialStore.notifs
  /\ seq = InitialStore.seq
  /\ deleting = {}
  /\ superAdmins = InitialStore.superAdmins
  /\ last = [ep |-> "registerUser", role |-> "SuperAdmin", exists |-> FALSE,
             sameCo |-> FALSE, sameDept |-> FALSE, assigned |-> FALSE, self |-> FALSE,
             status |-> 201, code |-> "OK", foreign |-> FALSE, outDept |-> FALSE]

Without(f, id) == [i \in DOMAIN f \ {id} |-> f[i]]

\* A body field the request leaves out.
Undefined == "undefined"

\* Mongo queries {_id: id, company: req.user.company._id}.
UserInCompany(a, id) == id \in DOMAIN users /\ users[id].company = Co(a)
DeptInCompany(a, id) == id \in DOMAIN depts /\ depts[id].company = Co(a)

UserFacts(a, id) ==
  IF id \in DOMAIN users
    THEN Facts(TRUE, users[id].company = Co(a), users[id].department = Dept(a),
               FALSE, id = a)
    ELSE NoFacts

DeptFacts(a, id) ==
  IF id \in DOMAIN depts
    THEN Facts(TRUE, depts[id].company = Co(a), id = Dept(a), FALSE, FALSE)
    ELSE NoFacts

\* ------------------------------------------------------------ middlewares
\* operations: the list the route passes; method: req.method.toLowerCase().
authorizeCompanyAccess(a, operations, method) ==
  IF "create" \in operations /\ method = "post" /\ ~isSuperAdmin(Role(a))
    THEN R(403, "INSUFFICIENT_PERMISSIONS")
  ELSE IF "update" \in operations /\ method \in {"put", "patch"} /\ ~isSuperAdmin(Role(a))
    THEN R(403, "INSUFFICIENT_PERMISSIONS")
  ELSE IF "delete" \in operations /\ method = "delete" /\ ~isSuperAdmin(Role(a))
    THEN R(403, "INSUFFICIENT_PERMISSIONS")
  ELSE Pass

\* departmentId: params.departmentId || body.department || query.department,
\* 0 when the request carries none (the routes name the parameter :id).
authorizeDepartmentAccess(a, operations, method, departmentId) ==
  IF isSuperAdmin(Role(a)) THEN Pass
  ELSE IF "create" \in operations /\ method = "post"
    THEN R(403, "INSUFFICIENT_PERMISSIONS")
  ELSE IF (("update" \in operations) \/ ("delete" \in operations))
          /\ method \in {"put", "patch", "delete"}
    THEN R(403, "INSUFFICIENT_PERMISSIONS")
  ELSE IF "read" \in operations /\ method = "get"
          /\ departmentId # 0 /\ Dept(a) # departmentId
    THEN R(403, "DEPARTMENT_ACCESS_DENIED")
  ELSE Pass

\* authorizeUserAccess letting a department-level role update the users of its
\* own department.
authorizeUserAccess_DepartmentUpdates(a, operations, method, targetUserId) ==
  IF isSuperAdmin(Role(a)) THEN Pass
  ELSE IF "update" \in operations /\ method \in {"put", "patch"}
    THEN IF targetUserId # 0
            /\ (a = targetUserId
                \/ (hasDepartmentAccess(Role(a)) /\ targetUserId \in DOMAIN users
                    /\ users[targetUserId].department = Dept(a)))
           THEN Pass
           ELSE R(403, "USER_ACCESS_DENIED")
  ELSE R(403, "INSUFFICIENT_PERMISSIONS")

\* authorizeUserAccess letting the department-level roles create users.
authorizeUserAccess_DepartmentCreates(a, operations, method, targetUserId) ==
  IF isSuperAdmin(Role(a)) \/ hasDepartmentAccess(Role(a)) THEN Pass
  ELSE IF targetUserId # 0 /\ a # targetUserId THEN R(403, "USER_ACCESS_DENIED")
  ELSE R(403, "INSUFFICIENT_PERMISSIONS")

\* targetUserId: params.userId || params.id, 0 when the route has none.  The
\* read branch populates the target's department; a target whose department
\* document is gone makes it throw, and the catch answers AUTHORIZATION_ERROR.
authorizeUserAccess(a, operations, method, targetUserId) ==
  IF isSuperAdmin(Role(a)) THEN Pass
  ELSE IF "create" \in operations /\ method = "post"
    THEN R(403, "INSUFFICIENT_PERMISSIONS")
  ELSE IF "delete" \in operations /\ method = "delete"
    THEN R(403, "INSUFFICIENT_PERMISSIONS")
  ELSE IF "read" \in operations /\ method = "get" /\ hasDepartmentAccess(Role(a))
          /\ targetUserId \in DOMAIN users
          /\ users[targetUserId].department \notin DOMAIN depts
    THEN R(500, "AUTHORIZATION_ERROR")
  ELSE IF "read" \in operations /\ method = "get" /\ hasDepartmentAccess(Role(a))
          /\ targetUserId # 0
          /\ (targetUserId \notin DOMAIN users
              \/ users[targetUserId].department # Dept(a))
    THEN R(403, "USER_ACCESS_DENIED")
  ELSE IF "read" \in operations /\ method = "get" /\ ~hasDepartmentAccess(Role(a))
          /\ targetUserId # 0 /\ a # targetUserId
    THEN R(403, "USER_ACCESS_DENIED")
  ELSE IF "update" \in operations /\ method \in {"put", "patch"}
    THEN IF targetUserId # 0 /\ a = targetUserId
           THEN Pass
           ELSE R(403, "USER_ACCESS_DENIED")
  ELSE Pass

\* authorizeTaskAccess without a role test: the own-department rule of the
\* routine tasks applied to every task type and operation.
authorizeTaskAccess_DepartmentOnly(a, operations, taskType, method, departmentId) ==
  IF isSuperAdmin(Role(a)) THEN Pass
  ELSE IF departmentId # 0 /\ Dept(a) # departmentId
    THEN R(403, "TASK_ACCESS_DENIED")
  ELSE Pass

\* departmentId: body.department || query.department, 0 when absent.
authorizeTaskAccess(a, operations, taskType, method, departmentId) ==
  IF isSuperAdmin(Role(a)) THEN Pass
  ELSE IF "create" \in operations /\ method = "post"
          /\ taskType \in {"AssignedTask", "ProjectTask"}
          /\ hasDepartmentAccess(Role(a))
          /\ departmentId # 0 /\ Dept(a) # departmentId
    THEN R(403, "TASK_ACCESS_DENIED")
  ELSE IF "create" \in operations /\ method = "post"
          /\ taskType \in {"AssignedTask", "ProjectTask"}
          /\ ~hasDepartmentAccess(Role(a))
    THEN R(403, "TASK_ACCESS_DENIED")
  ELSE IF "create" \in operations /\ method = "post" /\ taskType = "RoutineTask"
          /\ departmentId # 0 /\ Dept(a) # departmentId
    THEN R(403, "TASK_ACCESS_DENIED")
  ELSE IF "read" \in operations /\ method = "get" /\ taskType = "ProjectTask"
          /\ Role(a) = "User"
    THEN R(403, "TASK_ACCESS_DENIED")
  ELSE IF "update" \in operations /\ method \in {"put", "patch"}
          /\ taskType \in {"AssignedTask", "ProjectTask"}
          /\ ~hasDepartmentAccess(Role(a))
    THEN R(403, "TASK_ACCESS_DENIED")
  ELSE IF "delete" \in operations /\ method = "delete"
          /\ taskType \in {"AssignedTask", "ProjectTask"}
          /\ ~hasDepartmentAccess(Role(a))
    THEN R(403, "TASK_ACCESS_DENIED")
  ELSE Pass

authorizeTaskActivityAccess(a, operations) ==
  Pass

\* authorizeNotificationAccess refusing every write, a SuperAdmin's included.
authorizeNotificationAccess_WritesRefused(a, operations, method) ==
  IF "read" \in operations /\ method = "get" THEN Pass
  ELSE R(403, "NOTIFICATION_ACCESS_DENIED")

authorizeNotificationAccess(a, operations, method) ==
  IF isSuperAdmin(Role(a)) /\ "read" \in operations /\ method = "get" THEN Pass
  ELSE IF "create" \in operations /\ method = "post"
    THEN R(403, "NOTIFICATION_ACCESS_DENIED")
  ELSE Pass

authorizeRoles(a, allowedRoles) ==
  IF Role(a) \notin allowedRoles
    THEN R(403, "INSUFFICIENT_PERMISSIONS")
    ELSE Pass

\* ------------------------------------------------------------------ users
\* Rows a list query selects, as the facts the response records.
ForeignUsers(a, rows) == \E u \in rows : users[u].company # Co(a)
OutDeptUsers(a, rows) == \E u \in rows : users[u].department # Dept(a)

getUsersRows(a, department) ==
  {u \in DOMAIN users :
     /\ users[u].company = Co(a)
     /\ IF Role(a) = "SuperAdmin"
          THEN department = 0 \/ users[u].department = department
        ELSE IF Role(a) \in {"Admin", "Manager"}
          THEN users[u].department = Dept(a)
        ELSE u = a}

getUser(a, id) ==
  IF Role(a) \in {"Admin", "Manager"}
     /\ (~UserInCompany(a, id) \/ users[id].department # Dept(a))
    THEN R(403, "USER_ACCESS_DENIED")
  ELSE IF Role(a) \notin {"SuperAdmin", "Admin", "Manager"} /\ a # id
    THEN R(403, "USER_ACCESS_DENIED")
  ELSE IF ~UserInCompany(a, id)
    THEN R(404, "USER_NOT_FOUND")
  ELSE Ok

\* The email of the body is a fresh one: USER_ALREADY_EXISTS is not modelled.
createUser(a, department, role) ==
  IF ~DeptInCompany(a, department)
    THEN R(400, "INVALID_DEPARTMENT")
  ELSE IF role \notin SchemaRoles
    THEN Thrown("ValidationError")
  ELSE Created

updateUser(a, id, role, department, isActive) ==
  IF Role(a) # "SuperAdmin" /\ a # id
    THEN R(403, "USER_ACCESS_DENIED")
  ELSE IF ~UserInCompany(a, id)
    THEN R(404, "USER_NOT_FOUND")
  ELSE IF department # 0 /\ Role(a) = "SuperAdmin" /\ ~DeptInCompany(a, department)
    THEN R(400, "INVALID_DEPARTMENT")
  ELSE IF Role(a) = "SuperAdmin" /\ role # Undefined /\ role \notin SchemaRoles
    THEN Thrown("ValidationError")
  ELSE Ok

\* updateData built from the body for every role.
updateData_AnyRole(a, id, role, department, isActive) ==
  [users[id] EXCEPT
     !.role = IF role # Undefined THEN role ELSE @,
     !.department = IF department # 0 THEN department ELSE @,
     !.isActive = IF isActive # Undefined THEN isActive = "true" ELSE @]

\* updateData applied to the stored user.
updateData(a, id, role, department, isActive) ==
  IF Role(a) = "SuperAdmin"
    THEN [users[id] EXCEPT
            !.role = IF role # Undefined THEN role ELSE @,
            !.department = IF department # 0 THEN department ELSE @,
            !.isActive = IF isActive # Undefined THEN isActive = "true" ELSE @]
    ELSE users[id]

\* The company's superAdmins array after updateUser's "Handle SuperAdmin role
\* changes" block, which runs before User.findByIdAndUpdate and its
\* validators.
updateSuperAdmins(a, id, role, list) ==
  IF Role(a) # "SuperAdmin" \/ role = Undefined THEN list
  ELSE IF role = "SuperAdmin" /\ users[id].role # "SuperAdmin" THEN list \cup {id}
  ELSE IF role # "SuperAdmin" /\ users[id].role = "SuperAdmin" THEN list \ {id}
  ELSE list

\* The current password of the body is the right one.
updatePassword(a, id) ==
  IF Role(a) # "SuperAdmin" /\ a # id
    THEN R(403, "USER_ACCESS_DENIED")
  ELSE IF ~UserInCompany(a, id)
    THEN R(404, "USER_NOT_FOUND")
  ELSE Ok

updateProfilePicture(a, id) ==
  IF Role(a) # "SuperAdmin" /\ a # id
    THEN R(403, "USER_ACCESS_DENIED")
  ELSE IF ~UserInCompany(a, id)
    THEN R(404, "USER_NOT_FOUND")
  ELSE Ok

deleteUser(a, id) ==
  IF ~UserInCompany(a, id)
    THEN R(404, "USER_NOT_FOUND")
  ELSE IF users[id].role = "SuperAdmin"
          /\ {u \in DOMAIN users : users[u].company = Co(a)
                /\ users[u].role = "SuperAdmin" /\ u # id} = {}
    THEN R(400, "LAST_SUPERADMIN_DELETE_ERROR")
  ELSE Ok

deactivateUser(a, id) ==
  IF ~UserInCompany(a, id) THEN R(404, "USER_NOT_FOUND") ELSE Ok

activateUser(a, id) ==
  IF ~UserInCompany(a, id) THEN R(404, "USER_NOT_FOUND") ELSE Ok

\* ----------------------------------------------------------- user routes
\* A request that writes nothing.
Reply(ep, a, f, r, foreign, outDept) ==
  /\ last' = Respond(ep, a, f, r, foreign, outDept)
  /\ UNCHANGED db

GetUsers ==
  \E a \in Actors, department \in DeptIds \cup {0} :
    LET r == Then(authorizeUserAccess(a, {"read"}, "get", 0), Ok)
        rows == getUsersRows(a, department)
    IN Reply("getUsers", a, NoFacts, r, ForeignUsers(a, rows), OutDeptUsers(a, rows))

GetUser ==
  \E a \in Actors, id \in UserIds :
    LET r == Then(authorizeUserAccess(a, {"read"}, "get", id), getUser(a, id))
    IN Reply("getUser", a, UserFacts(a, id), r,
             users[id].company # Co(a), users[id].department # Dept(a))

GetMyProfile ==
  \E a \in Actors :
    Reply("getMyProfile", a, UserFacts(a, a), Ok, FALSE, FALSE)

GetUserStats ==
  \E a \in Actors :
    LET rows == getUsersRows(a, 0)
    IN Reply("getUserStats", a, NoFacts, Ok, ForeignUsers(a, rows), OutDeptUsers(a, rows))

CreateUser ==
  \E a \in Actors, department \in DeptIds, role \in BodyRoles :
    LET r == Then(authorizeUserAccess(a, {"create"}, "post", 0),
                  createUser(a, department, role))
        id == seq.user + 1
    IN /\ Success(r) => id <= MaxUsers
       /\ users' = IF Success(r)
                     THEN users @@ (id :> [company |-> Co(a), department |-> department,
                                           role |-> role, isActive |-> TRUE])
                     ELSE users
       /\ seq' = IF Success(r) THEN [seq EXCEPT !.user = id] ELSE seq
       /\ superAdmins' = IF Success(r) /\ role = "SuperAdmin"
                           THEN [superAdmins EXCEPT ![Co(a)] = @ \cup {id}]
                           ELSE superAdmins
       /\ last' = Respond("createUser", a, DeptFacts(a, department), r, FALSE,
                          department # Dept(a))
       /\ UNCHANGED <<deleting, companies, depts, tasks, rtasks, acts, notifs>>

\* The bodies of PUT /api/users/:id: one of role, department, isActive, or none.
UserUpdateBodies ==
  {[role |-> x, department |-> 0, isActive |-> Undefined] : x \in BodyRoles \cup {Undefined}}
    \cup {[role |-> Undefined, department |-> d, isActive |-> Undefined] : d \in DeptIds}
    \cup {[role |-> Undefined, department |-> 0, isActive |-> i] : i \in {"true", "false"}}

UpdateUserWith(bodies) ==
  \E a \in Actors, id \in UserIds, body \in bodies :
    LET r == Then(authorizeUserAccess(a, {"update"}, "put", id),
                  updateUser(a, id, body.role, body.department, body.isActive))
    IN /\ users' = IF Success(r)
                     THEN [users EXCEPT ![id] =
                             updateData(a, id, body.role, body.department, body.isActive)]
                     ELSE users
       /\ superAdmins' = IF Success(r) \/ r = Thrown("ValidationError")
                           THEN [superAdmins EXCEPT ![Co(a)] =
                                   updateSuperAdmins(a, id, body.role, @)]
                           ELSE superAdmins
       /\ last' = Respond("updateUser", a, UserFacts(a, id), r,
                          users[id].company # Co(a), users[id].department # Dept(a))
       /\ UNCHANGED <<deleting, companies, depts, tasks, rtasks, acts, notifs, seq>>

UpdatePassword ==
  \E a \in Actors, id \in UserIds :
    LET r == Then(authorizeUserAccess(a, {"update"}, "put", id), updatePassword(a, id))
    IN Reply("updatePassword", a, UserFacts(a, id), r,
             users[id].company # Co(a), users[id].department # Dept(a))

UpdateProfilePicture ==
  \E a \in Actors, id \in UserIds :
    LET r == Then(authorizeUserAccess(a, {"update"}, "put", id),
                  updateProfilePicture(a, id))
    IN Reply("updateProfilePicture", a, UserFacts(a, id), r,
             users[id].company # Co(a), users[id].department # Dept(a))

DeactivateUser ==
  \E a \in Actors, id \in UserIds :
    LET r == Then(authorizeUserAccess(a, {"update"}, "put", id), deactivateUser(a, id))
    IN /\ users' = IF Success(r) THEN [users EXCEPT ![id].isActive = FALSE] ELSE users
       /\ last' = Respond("deactivateUser", a, UserFacts(a, id), r,
                          users[id].company # Co(a), users[id].department # Dept(a))
       /\ UNCHANGED <<deleting, superAdmins, companies, depts, tasks, rtasks, acts, notifs, seq>>

ActivateUser ==
  \E a \in Actors, id \in UserIds :
    LET r == Then(authorizeUserAccess(a, {"update"}, "put", id), activateUser(a, id))
    IN /\ users' = IF Success(r) THEN [users EXCEPT ![id].isActive = TRUE] ELSE users
       /\ last' = Respond("activateUser", a, UserFacts(a, id), r,
                          users[id].company # Co(a), users[id].department # Dept(a))
       /\ UNCHANGED <<deleting, superAdmins, companies, depts, tasks, rtasks, acts, notifs, seq>>

DeleteUser ==
  \E a \in Actors, id \in UserIds :
    LET r == Then(authorizeUserAccess(a, {"delete"}, "delete", id), deleteUser(a, id))
    IN /\ users' = IF Success(r) THEN Without(users, id) ELSE users
       /\ superAdmins' = IF Success(r) /\ users[id].role = "SuperAdmin"
                           THEN [superAdmins EXCEPT ![Co(a)] = @ \ {id}]
                           ELSE superAdmins
       /\ last' = Respond("deleteUser", a, UserFacts(a, id), r,
                          users[id].company # Co(a), users[id].department # Dept(a))
       /\ UNCHANGED <<deleting, companies, depts, tasks, rtasks, acts, notifs, seq>>

\* deleteUser as the steps the handler awaits.  First step: the middleware,
\* User.findOne and the count of the other SuperAdmins; a refusal is answered
\* at once, otherwise the request goes on to its writes.
DeleteUserCheck ==
  \E a \in Actors, id \in UserIds :
    LET r == Then(authorizeUserAccess(a, {"delete"}, "delete", id), deleteUser(a, id))
        req == [actor |-> a, role |-> Role(a), company |-> Co(a), id |-> id,
                targetRole |-> IF id \in DOMAIN users THEN users[id].role ELSE Undefined]
    IN /\ req \notin deleting
       /\ deleting' = IF Success(r) THEN deleting \cup {req} ELSE deleting
       /\ last' = IF Success(r) THEN last
                  ELSE Respond("deleteUser", a, UserFacts(a, id), r, FALSE, FALSE)
       /\ UNCHANGED <<companies, depts, users, tasks, rtasks, acts, notifs, seq, superAdmins>>

\* Second step: User.findByIdAndDelete and the 200 answer, whatever other
\* requests have written since the checks.
DeleteUserWrite ==
  \E req \in deleting :
    /\ deleting' = deleting \ {req}
    /\ users' = Without(users, req.id)
    /\ superAdmins' = IF req.targetRole = "SuperAdmin"
                        THEN [superAdmins EXCEPT ![req.company] = @ \ {req.id}]
                        ELSE superAdmins
    /\ last' = [ep |-> "deleteUser", role |-> req.role, exists |-> TRUE,
                sameCo |-> TRUE, sameDept |-> FALSE, assigned |-> FALSE,
                self |-> req.actor = req.id, status |-> 200, code |-> "OK",
                foreign |-> FALSE, outDept |-> FALSE]
    /\ UNCHANGED <<companies, depts, tasks, rtasks, acts, notifs, seq>>

\* ------------------------------------------------------------ registration
\* The writes of registerUser's transaction, in order: company.save,
\* department.save, adminUser.save, department.save with the manager pushed,
\* company.save with the superAdmin pushed.
RegisterSteps == <<"company", "department", "user", "managers", "superAdmins">>

\* registerUser with the first department saved outside the session.
registerInSession_DepartmentOutside(step) ==
  step # "department"

\* Every save of registerUser passes {session}.
registerInSession(step) ==
  TRUE

\* failAt: the write that rejects (a validator, a unique index), 0 when none
\* does.  The catch aborts the transaction and passes the error on.
registerUser(failAt) ==
  IF failAt = 0 THEN Created ELSE Thrown("ValidationError")

\* What the store holds afterwards: everything after commitTransaction, and
\* after abortTransaction only what was written outside the session.
registerPersisted(failAt) ==
  IF failAt = 0
    THEN {RegisterSteps[i] : i \in DOMAIN RegisterSteps}
    ELSE {RegisterSteps[i] : i \in {j \in 1..(failAt - 1) : ~registerInSession(RegisterSteps[j])}}

\* POST /api/auth/register, a public route.
RegisterUser ==
  \E failAt \in 0..Len(RegisterSteps) :
    LET c == seq.company + 1
        d == seq.dept + 1
        u == seq.user + 1
        done == registerPersisted(failAt)
        r == registerUser(failAt)
    IN /\ c <= MaxCompanies /\ d <= MaxDepts /\ u <= MaxUsers
       /\ companies' = IF "company" \in done
                         THEN companies @@ (c :> [isActive |-> TRUE]) ELSE companies
       /\ superAdmins' = IF "company" \in done
                           THEN superAdmins
                                  @@ (c :> IF "superAdmins" \in done THEN {u} ELSE {})
                           ELSE superAdmins
       /\ depts' = IF "department" \in done
                     THEN depts @@ (d :> [company |-> c,
                                          managers |-> IF "managers" \in done
                                                         THEN {u} ELSE {}])
                     ELSE depts
       /\ users' = IF "user" \in done
                     THEN users @@ (u :> [company |-> c, department |-> d,
                                          role |-> "SuperAdmin", isActive |-> TRUE])
                     ELSE users
       /\ seq' = [seq EXCEPT !.company = IF "company" \in done THEN c ELSE @,
                             !.dept = IF "department" \in done THEN d ELSE @,
                             !.user = IF "user" \in done THEN u ELSE @]
       /\ last' = [ep |-> "registerUser", role |-> "SuperAdmin", exists |-> FALSE,
                   sameCo |-> FALSE, sameDept |-> FALSE, assigned |-> FALSE,
                   self |-> FALSE, status |-> r.status, code |-> r.code,
                   foreign |-> FALSE, outDept |-> FALSE]
       /\ UNCHANGED <<tasks, rtasks, acts, notifs, deleting>>

\* ---------------------------------------------------------- assigned tasks
TaskStatus == {"To Do", "In Progress", "Completed", "Pending"}
\* The statuses request bodies name.
BodyStatus == {"To Do", "Completed"}

\* AssignedTask.findOne({_id: id, company}): the discriminator model matches
\* documents of its own taskType only.
AssignedInCompany(a, id) ==
  /\ id \in DOMAIN tasks
  /\ tasks[id].taskType = "AssignedTask"
  /\ tasks[id].company = Co(a)

\* Facts about the task a request names, for the routes of one task type.
TaskFacts(a, taskType, id) ==
  IF id \in DOMAIN tasks /\ tasks[id].taskType = taskType
    THEN Facts(TRUE, tasks[id].company = Co(a), tasks[id].department = Dept(a),
               a \in tasks[id].assignedTo, tasks[id].createdBy = a)
    ELSE NoFacts

\* What a task document sent back shows: itself and the users populate() finds.
ForeignTask(a, id) ==
  \/ tasks[id].company # Co(a)
  \/ \E u \in (tasks[id].assignedTo \cup {tasks[id].createdBy}) \cap DOMAIN users :
       users[u].company # Co(a)

ForeignTasks(a, rows) == \E t \in rows : ForeignTask(a, t)
OutDeptTasks(a, rows) == \E t \in rows : tasks[t].department # Dept(a)

\* The users User.find({_id: {$in: assignedTo}, company, department, isActive})
\* returns.
validAssignees(a, department, assignedTo) ==
  {u \in assignedTo \cap DOMAIN users :
     /\ users[u].company = Co(a)
     /\ users[u].department = department
     /\ users[u].isActive}

getAssignedTasksRows(a, department) ==
  {t \in DOMAIN tasks :
     /\ tasks[t].taskType = "AssignedTask"
     /\ tasks[t].company = Co(a)
     /\ IF Role(a) = "SuperAdmin"
          THEN department = 0 \/ tasks[t].department = department
        ELSE IF Role(a) \in {"Admin", "Manager"}
          THEN tasks[t].department = Dept(a)
        ELSE a \in tasks[t].assignedTo}

\* getAssignedTask with the department rule applied to role User as well.
getAssignedTask_UserNeedsDepartment(a, id) ==
  IF ~AssignedInCompany(a, id)
    THEN R(404, "TASK_NOT_FOUND")
  ELSE IF Role(a) = "SuperAdmin"
    THEN Ok
  ELSE IF tasks[id].department # Dept(a)
    THEN R(403, "TASK_ACCESS_DENIED")
  ELSE IF Role(a) = "User" /\ a \notin tasks[id].assignedTo
    THEN R(403, "TASK_ACCESS_DENIED")
  ELSE Ok

getAssignedTask(a, id) ==
  IF ~AssignedInCompany(a, id)
    THEN R(404, "TASK_NOT_FOUND")
  ELSE IF Role(a) = "SuperAdmin"
    THEN Ok
  ELSE IF Role(a) \in {"Admin", "Manager"}
    THEN IF tasks[id].department \notin DOMAIN depts
           THEN Thrown("TypeError")
         ELSE IF tasks[id].department # Dept(a)
           THEN R(403, "TASK_ACCESS_DENIED")
         ELSE Ok
  ELSE IF a \notin tasks[id].assignedTo
    THEN R(403, "TASK_ACCESS_DENIED")
  ELSE Ok

getMyAssignedTasksRows(a) ==
  {t \in DOMAIN tasks :
     /\ tasks[t].taskType = "AssignedTask"
     /\ tasks[t].company = Co(a)
     /\ a \in tasks[t].assignedTo}

createAssignedTask(a, department, assignedTo) ==
  IF ~DeptInCompany(a, department)
    THEN R(404, "DEPARTMENT_NOT_FOUND")
  ELSE IF Role(a) # "SuperAdmin" /\ Dept(a) # department
    THEN R(403, "DEPARTMENT_ACCESS_DENIED")
  ELSE IF validAssignees(a, department, assignedTo) # assignedTo
    THEN R(400, "INVALID_ASSIGNED_USERS")
  ELSE Created

\* given: the body has an assignedTo array (an empty one included).
updateAssignedTask(a, id, status, given, assignedTo) ==
  IF ~AssignedInCompany(a, id)
    THEN R(404, "TASK_NOT_FOUND")
  ELSE IF Role(a) # "SuperAdmin" /\ tasks[id].department \notin DOMAIN depts
    THEN Thrown("TypeError")
  ELSE IF Role(a) # "SuperAdmin" /\ tasks[id].department # Dept(a)
    THEN R(403, "TASK_ACCESS_DENIED")
  ELSE IF given /\ tasks[id].department \notin DOMAIN depts
    THEN Thrown("TypeError")
  ELSE IF given /\ validAssignees(a, tasks[id].department, assignedTo) # assignedTo
    THEN R(400, "INVALID_ASSIGNED_USERS")
  ELSE Ok

completeTask(a, id) ==
  IF ~AssignedInCompany(a, id)
    THEN R(404, "TASK_NOT_FOUND")
  ELSE IF Role(a) = "User" /\ a \notin tasks[id].assignedTo
    THEN R(403, "TASK_ACCESS_DENIED")
  ELSE IF Role(a) \in {"Admin", "Manager"} /\ tasks[id].department # Dept(a)
    THEN R(403, "TASK_ACCESS_DENIED")
  ELSE Ok

uncompleteTask(a, id) ==
  completeTask(a, id)

deleteAssignedTask(a, id) ==
  IF ~AssignedInCompany(a, id)
    THEN R(404, "TASK_NOT_FOUND")
  ELSE IF Role(a) # "SuperAdmin" /\ tasks[id].department \notin DOMAIN depts
    THEN Thrown("TypeError")
  ELSE IF Role(a) # "SuperAdmin" /\ tasks[id].department # Dept(a)
    THEN R(403, "TASK_ACCESS_DENIED")
  ELSE Ok

\* One notification document per recipient.
Notify(recipients, company, task) ==
  {[user |-> u, company |-> company, task |-> task, isRead |-> FALSE] : u \in recipients}

\* taskSchema.pre("save"): a status newly set to "To Do" is stored as
\* "In Progress" when the task has activities.  isModified("status") is false
\* when the value assigned is the stored one.
taskPreSave(id, status) ==
  IF /\ status = "To Do"
     /\ tasks[id].status # status
     /\ \E i \in DOMAIN acts : acts[i].task = id
    THEN "In Progress"
    ELSE status

\* ---------------------------------------------------- assigned-task routes
GetAssignedTasks ==
  \E a \in Actors, department \in DeptIds \cup {0} :
    LET r == Then(authorizeTaskAccess(a, {"read"}, "AssignedTask", "get", department), Ok)
        rows == getAssignedTasksRows(a, department)
    IN Reply("getAssignedTasks", a, NoFacts, r, ForeignTasks(a, rows), OutDeptTasks(a, rows))

GetAssignedTask ==
  \E a \in Actors, id \in TaskIds :
    LET r == Then(authorizeTaskAccess(a, {"read"}, "AssignedTask", "get", 0),
                  getAssignedTask(a, id))
    IN Reply("getAssignedTask", a, TaskFacts(a, "AssignedTask", id), r,
             ForeignTask(a, id), tasks[id].department # Dept(a))

GetMyAssignedTasks ==
  \E a \in Actors :
    LET rows == getMyAssignedTasksRows(a)
    IN Reply("getMyAssignedTasks", a, NoFacts, Ok,
             ForeignTasks(a, rows), OutDeptTasks(a, rows))

GetAssignedTaskStats ==
  \E a \in Actors :
    LET rows == getAssignedTasksRows(a, 0)
    IN Reply("getAssignedTaskStats", a, NoFacts, Ok,
             ForeignTasks(a, rows), OutDeptTasks(a, rows))

CreateAssignedTask ==
  \E a \in Actors, department \in DeptIds, assignedTo \in (SUBSET UserIds) \ {{}} :
    LET r == Then(authorizeTaskAccess(a, {"create"}, "AssignedTask", "post", department),
                  createAssignedTask(a, department, assignedTo))
        id == seq.task + 1
    IN /\ Success(r) => id <= MaxTasks
       /\ tasks' = IF Success(r)
                     THEN tasks @@ (id :> [taskType |-> "AssignedTask", company |-> Co(a),
                                           department |-> department, createdBy |-> a,
                                           assignedTo |-> assignedTo, status |-> "To Do"])
                     ELSE tasks
       /\ notifs' = IF Success(r) THEN notifs \cup Notify(assignedTo, Co(a), id) ELSE notifs
       /\ seq' = IF Success(r) THEN [seq EXCEPT !.task = id] ELSE seq
       /\ last' = Respond("createAssignedTask", a, DeptFacts(a, department), r, FALSE,
                          department # Dept(a))
       /\ UNCHANGED <<deleting, superAdmins, companies, depts, users, rtasks, acts>>

\* The bodies of PUT /api/assigned-tasks/:id: a status, an assignedTo array
\* (given), or neither.
TaskUpdateBodies ==
  {[status |-> x, given |-> FALSE, assignedTo |-> {}] : x \in BodyStatus \cup {Undefined}}
    \cup {[status |-> Undefined, given |-> TRUE, assignedTo |-> x] : x \in SUBSET UserIds}

UpdateAssignedTask ==
  \E a \in Actors, id \in TaskIds, body \in TaskUpdateBodies :
    LET status == body.status
        given == body.given
        assignedTo == body.assignedTo
        r == Then(authorizeTaskAccess(a, {"update"}, "AssignedTask", "put", 0),
                  updateAssignedTask(a, id, status, given, assignedTo))
        updatedTask == [tasks[id] EXCEPT
                          !.status = IF status # Undefined THEN status ELSE @,
                          !.assignedTo = IF given THEN assignedTo ELSE @]
    IN /\ tasks' = IF Success(r) THEN [tasks EXCEPT ![id] = updatedTask] ELSE tasks
       /\ notifs' = IF Success(r) /\ status # Undefined /\ status # tasks[id].status
                      THEN notifs \cup Notify(updatedTask.assignedTo \cap DOMAIN users, Co(a), id)
                      ELSE notifs
       /\ last' = Respond("updateAssignedTask", a, TaskFacts(a, "AssignedTask", id), r,
                          ForeignTask(a, id), tasks[id].department # Dept(a))
       /\ UNCHANGED <<deleting, superAdmins, companies, depts, users, rtasks, acts, seq>>

\* PUT /api/assigned-tasks/:id/complete.  The completion mark is the work of
\* task.markCompletedByUser, a method of the AssignedTask model; the handler
\* itself sends the task's creator a notification.
CompleteTask ==
  \E a \in Actors, id \in TaskIds :
    LET r == Then(authorizeTaskAccess(a, {"update"}, "AssignedTask", "put", 0),
                  completeTask(a, id))
    IN /\ notifs' = IF Success(r)
                      THEN notifs \cup Notify({tasks[id].createdBy}, Co(a), id)
                      ELSE notifs
       /\ last' = Respond("completeTask", a, TaskFacts(a, "AssignedTask", id), r,
                          ForeignTask(a, id), tasks[id].department # Dept(a))
       /\ UNCHANGED <<deleting, superAdmins, companies, depts, users, tasks, rtasks, acts, seq>>

\* PUT /api/assigned-tasks/:id/uncomplete.
UncompleteTask ==
  \E a \in Actors, id \in TaskIds :
    LET r == Then(authorizeTaskAccess(a, {"update"}, "AssignedTask", "put", 0),
                  uncompleteTask(a, id))
    IN Reply("uncompleteTask", a, TaskFacts(a, "AssignedTask", id), r,
             ForeignTask(a, id), tasks[id].department # Dept(a))

DeleteAssignedTask ==
  \E a \in Actors, id \in TaskIds :
    LET r == Then(authorizeTaskAccess(a, {"delete"}, "AssignedTask", "delete", 0),
                  deleteAssignedTask(a, id))
    IN /\ tasks' = IF Success(r) THEN Without(tasks, id) ELSE tasks
       /\ notifs' = IF Success(r) THEN {n \in notifs : n.task # id} ELSE notifs
       /\ last' = Respond("deleteAssignedTask", a, TaskFacts(a, "AssignedTask", id), r,
                          FALSE, tasks[id].department # Dept(a))
       /\ UNCHANGED <<deleting, superAdmins, companies, depts, users, rtasks, acts, seq>>

\* -------------------------------------------------------- department routes
createDepartment(a) ==
  Created

CreateDepartment ==
  \E a \in Actors :
    LET r == Then(authorizeDepartmentAccess(a, {"create"}, "post", 0), createDepartment(a))
        id == seq.dept + 1
    IN /\ Success(r) => id <= MaxDepts
       /\ depts' = IF Success(r) THEN depts @@ (id :> [company |-> Co(a), managers |-> {}]) ELSE depts
       /\ seq' = IF Success(r) THEN [seq EXCEPT !.dept = id] ELSE seq
       /\ last' = Respond("createDepartment", a, NoFacts, r, FALSE, TRUE)
       /\ UNCHANGED <<deleting, superAdmins, companies, users, tasks, rtasks, acts, notifs>>

UpdateUser ==
  UpdateUserWith(UserUpdateBodies)

\* PUT /api/users/:id with a body that names a department.
ReassignUser ==
  UpdateUserWith({b \in UserUpdateBodies : b.department # 0})

\* ----------------------------------------------------------- project tasks
ProjectInCompany(a, id) ==
  /\ id \in DOMAIN tasks
  /\ tasks[id].taskType = "ProjectTask"
  /\ tasks[id].company = Co(a)

getProjectTasksRows(a, department) ==
  {t \in DOMAIN tasks :
     /\ tasks[t].taskType = "ProjectTask"
     /\ tasks[t].company = Co(a)
     /\ IF Role(a) = "SuperAdmin"
          THEN department = 0 \/ tasks[t].department = department
        ELSE IF Role(a) \in {"Admin", "Manager"}
          THEN tasks[t].department = Dept(a)
        ELSE TRUE}

getProjectTasks(a) ==
  IF Role(a) = "User" THEN R(403, "PROJECT_TASK_ACCESS_DENIED") ELSE Ok

\* The check getProjectTask, updateProjectTask, updateProjectTaskStatus and
\* deleteProjectTask open with.
getProjectTask(a, id) ==
  IF Role(a) = "User"
    THEN R(403, "PROJECT_TASK_ACCESS_DENIED")
  ELSE IF ~ProjectInCompany(a, id)
    THEN R(404, "PROJECT_TASK_NOT_FOUND")
  ELSE IF Role(a) \in {"Admin", "Manager"} /\ tasks[id].department \notin DOMAIN depts
    THEN Thrown("TypeError")
  ELSE IF Role(a) \in {"Admin", "Manager"} /\ tasks[id].department # Dept(a)
    THEN R(403, "PROJECT_TASK_ACCESS_DENIED")
  ELSE Ok

createProjectTask(a, department) ==
  IF Role(a) = "User"
    THEN R(403, "PROJECT_TASK_ACCESS_DENIED")
  ELSE IF ~DeptInCompany(a, department)
    THEN R(404, "DEPARTMENT_NOT_FOUND")
  ELSE IF Role(a) # "SuperAdmin" /\ Dept(a) # department
    THEN R(403, "DEPARTMENT_ACCESS_DENIED")
  ELSE Created

updateProjectTask(a, id) ==
  getProjectTask(a, id)

\* The task is saved before the completion notification is built from
\* task.department._id, which throws when the department document is gone.
updateProjectTaskStatus(a, id, status) ==
  IF ~Success(getProjectTask(a, id))
    THEN getProjectTask(a, id)
  ELSE IF /\ status = "Completed"
          /\ tasks[id].status # "Completed"
          /\ tasks[id].department \notin DOMAIN depts
    THEN Thrown("TypeError")
  ELSE Ok

deleteProjectTask(a, id) ==
  getProjectTask(a, id)

\* getProjectTaskStats without its opening role test.
getProjectTaskStats_NoRoleTest(a) ==
  Ok

getProjectTaskStats(a) ==
  IF Role(a) = "User" THEN R(403, "PROJECT_TASK_ACCESS_DENIED") ELSE Ok

getProjectTasksByClient(a) ==
  IF Role(a) = "User" THEN R(403, "PROJECT_TASK_ACCESS_DENIED") ELSE Ok

\* ---------------------------------------------------- project-task routes
\* The four GET routes.
ProjectTaskReads ==
  \E a \in Actors, id \in TaskIds, department \in DeptIds \cup {0} :
    \/ LET rows == getProjectTasksRows(a, department)
       IN Reply("getProjectTasks", a, NoFacts,
                Then(authorizeTaskAccess(a, {"read"}, "ProjectTask", "get", department),
                     getProjectTasks(a)),
                ForeignTasks(a, rows), OutDeptTasks(a, rows))
    \/ Reply("getProjectTask", a, TaskFacts(a, "ProjectTask", id),
             Then(authorizeTaskAccess(a, {"read"}, "ProjectTask", "get", 0),
                  getProjectTask(a, id)),
             ForeignTask(a, id), tasks[id].department # Dept(a))
    \/ LET rows == getProjectTasksRows(a, 0)
       IN Reply("getProjectTaskStats", a, NoFacts, getProjectTaskStats(a),
                ForeignTasks(a, rows), OutDeptTasks(a, rows))
    \/ LET rows == getProjectTasksRows(a, 0)
       IN Reply("getProjectTasksByClient", a, NoFacts, getProjectTasksByClient(a),
                ForeignTasks(a, rows), OutDeptTasks(a, rows))

CreateProjectTask ==
  \E a \in Actors, department \in DeptIds :
    LET r == Then(authorizeTaskAccess(a, {"create"}, "ProjectTask", "post", department),
                  createProjectTask(a, department))
        id == seq.task + 1
    IN /\ Success(r) => id <= MaxTasks
       /\ tasks' = IF Success(r)
                     THEN tasks @@ (id :> [taskType |-> "ProjectTask", company |-> Co(a),
                                           department |-> department, createdBy |-> a,
                                           assignedTo |-> {}, status |-> "To Do"])
                     ELSE tasks
       /\ seq' = IF Success(r) THEN [seq EXCEPT !.task = id] ELSE seq
       /\ last' = Respond("createProjectTask", a, DeptFacts(a, department), r, FALSE,
                          department # Dept(a))
       /\ UNCHANGED <<deleting, superAdmins, companies, depts, users, rtasks, acts, notifs>>

UpdateProjectTask ==
  \E a \in Actors, id \in TaskIds, status \in BodyStatus \cup {Undefined} :
    LET r == Then(authorizeTaskAccess(a, {"update"}, "ProjectTask", "put", 0),
                  updateProjectTask(a, id))
    IN /\ tasks' = IF Success(r) /\ status # Undefined
                     THEN [tasks EXCEPT ![id].status = status]
                     ELSE tasks
       /\ last' = Respond("updateProjectTask", a, TaskFacts(a, "ProjectTask", id), r,
                          ForeignTask(a, id), tasks[id].department # Dept(a))
       /\ UNCHANGED <<deleting, superAdmins, companies, depts, users, rtasks, acts, notifs, seq>>

UpdateProjectTaskStatus ==
  \E a \in Actors, id \in TaskIds, status \in BodyStatus :
    LET m == authorizeTaskAccess(a, {"update"}, "ProjectTask", "put", 0)
        r == Then(m, updateProjectTaskStatus(a, id, status))
        saved == m = Pass /\ Success(getProjectTask(a, id))
    IN /\ tasks' = IF saved
                     THEN [tasks EXCEPT ![id].status = taskPreSave(id, status)]
                     ELSE tasks
       /\ notifs' = IF Success(r) /\ status = "Completed" /\ tasks[id].status # "Completed"
                      THEN notifs \cup Notify({tasks[id].createdBy}, Co(a), id)
                      ELSE notifs
       /\ last' = Respond("updateProjectTaskStatus", a, TaskFacts(a, "ProjectTask", id), r,
                          FALSE, tasks[id].department # Dept(a))
       /\ UNCHANGED <<deleting, superAdmins, companies, depts, users, rtasks, acts, seq>>

DeleteProjectTask ==
  \E a \in Actors, id \in TaskIds :
    LET r == Then(authorizeTaskAccess(a, {"delete"}, "ProjectTask", "delete", 0),
                  deleteProjectTask(a, id))
    IN /\ tasks' = IF Success(r) THEN Without(tasks, id) ELSE tasks
       /\ notifs' = IF Success(r) THEN {n \in notifs : n.task # id} ELSE notifs
       /\ last' = Respond("deleteProjectTask", a, TaskFacts(a, "ProjectTask", id), r,
                          FALSE, tasks[id].department # Dept(a))
       /\ UNCHANGED <<deleting, superAdmins, companies, depts, users, rtasks, acts, seq>>

\* --------------------------------------------------------- task activities
\* Facts about the activity a request names; populate("task") gives null once
\* the task is deleted.
ActFacts(a, id) ==
  IF id \notin DOMAIN acts
    THEN NoFacts
  ELSE IF acts[id].task \notin DOMAIN tasks
    THEN Facts(TRUE, FALSE, FALSE, FALSE, acts[id].performedBy = a)
  ELSE LET task == tasks[acts[id].task]
       IN Facts(TRUE, task.company = Co(a), task.department = Dept(a),
                task.taskType = "AssignedTask" /\ a \in task.assignedTo,
                acts[id].performedBy = a)

ForeignAct(a, id) ==
  \/ acts[id].task \in DOMAIN tasks /\ tasks[acts[id].task].company # Co(a)
  \/ acts[id].performedBy \in DOMAIN users /\ users[acts[id].performedBy].company # Co(a)

OutDeptAct(a, id) ==
  acts[id].task \in DOMAIN tasks /\ tasks[acts[id].task].department # Dept(a)

\* Task.find(taskQuery).distinct("_id")
accessibleTasks(a) ==
  {t \in DOMAIN tasks :
     /\ tasks[t].company = Co(a)
     /\ IF Role(a) = "SuperAdmin"
          THEN TRUE
        ELSE IF Role(a) \in {"Admin", "Manager"}
          THEN tasks[t].department = Dept(a)
        ELSE a \in tasks[t].assignedTo /\ tasks[t].taskType = "AssignedTask"}

getTaskActivitiesRows(a, taskId) ==
  {i \in DOMAIN acts :
     /\ acts[i].task \in accessibleTasks(a)
     /\ taskId = 0 \/ acts[i].task = taskId}

getTaskActivities(a, taskId) ==
  IF taskId # 0 /\ taskId \notin accessibleTasks(a)
    THEN R(403, "TASK_ACTIVITY_ACCESS_DENIED")
    ELSE Ok

\* AssignedTask.findById(taskId) with assignedTo.includes(req.user._id)
assignedToMe(a, taskId) ==
  /\ taskId \in DOMAIN tasks
  /\ tasks[taskId].taskType = "AssignedTask"
  /\ a \in tasks[taskId].assignedTo

getTaskActivity(a, id) ==
  IF id \notin DOMAIN acts
    THEN R(404, "TASK_ACTIVITY_NOT_FOUND")
  ELSE IF acts[id].task \notin DOMAIN tasks
    THEN Thrown("TypeError")
  ELSE IF Role(a) = "SuperAdmin"
    THEN IF tasks[acts[id].task].company # Co(a)
           THEN R(403, "TASK_ACTIVITY_ACCESS_DENIED") ELSE Ok
  ELSE IF Role(a) \in {"Admin", "Manager"}
    THEN IF tasks[acts[id].task].department # Dept(a)
           THEN R(403, "TASK_ACTIVITY_ACCESS_DENIED") ELSE Ok
  ELSE IF ~assignedToMe(a, acts[id].task)
    THEN R(403, "TASK_ACTIVITY_ACCESS_DENIED")
  ELSE Ok

\* The checks createTaskActivity and getTaskActivitiesForTask share.
taskForActivity(a, taskId) ==
  IF ~(taskId \in DOMAIN tasks /\ tasks[taskId].company = Co(a))
    THEN R(404, "TASK_NOT_FOUND")
  ELSE IF Role(a) = "SuperAdmin"
    THEN Pass
  ELSE IF Role(a) \in {"Admin", "Manager"}
    THEN IF tasks[taskId].department # Dept(a) THEN R(403, "TASK_ACCESS_DENIED") ELSE Pass
  ELSE IF ~assignedToMe(a, taskId)
    THEN R(403, "TASK_ACCESS_DENIED")
  ELSE Pass

createTaskActivity(a, taskId) ==
  Then(taskForActivity(a, taskId), Created)

getTaskActivitiesForTask(a, taskId) ==
  Then(taskForActivity(a, taskId), Ok)

updateTaskActivity(a, id) ==
  IF id \notin DOMAIN acts
    THEN R(404, "TASK_ACTIVITY_NOT_FOUND")
  ELSE IF Role(a) \in {"SuperAdmin", "Admin", "Manager"}
    THEN getTaskActivity(a, id)
  ELSE IF acts[id].performedBy # a
    THEN R(403, "TASK_ACTIVITY_ACCESS_DENIED")
  ELSE getTaskActivity(a, id)

deleteTaskActivity(a, id) ==
  updateTaskActivity(a, id)

addTaskActivityAttachment(a, id) ==
  IF id \notin DOMAIN acts
    THEN R(404, "TASK_ACTIVITY_NOT_FOUND")
  ELSE IF Role(a) \in {"SuperAdmin", "Admin", "Manager"}
    THEN getTaskActivity(a, id)
  ELSE IF acts[id].performedBy # a
    THEN R(403, "TASK_ACTIVITY_ACCESS_DENIED")
  ELSE Ok

removeTaskActivityAttachment(a, id, index) ==
  IF ~Success(addTaskActivityAttachment(a, id))
    THEN addTaskActivityAttachment(a, id)
  ELSE IF index < 0 \/ index >= acts[id].attachments
    THEN R(400, "INVALID_ATTACHMENT_INDEX")
  ELSE Ok

\* ---------------------------------------------------- task-activity routes
\* The four GET routes.
TaskActivityReads ==
  \E a \in Actors, id \in ActIds, taskId \in TaskIds \cup {0} :
    \/ LET rows == getTaskActivitiesRows(a, 0)
       IN Reply("getTaskActivityStats", a, NoFacts, Ok,
                \E i \in rows : ForeignAct(a, i), \E i \in rows : OutDeptAct(a, i))
    \/ /\ taskId # 0
       /\ LET rows == {i \in DOMAIN acts : acts[i].task = taskId}
          IN Reply("getTaskActivitiesForTask", a,
                   IF taskId \in DOMAIN tasks
                     THEN TaskFacts(a, tasks[taskId].taskType, taskId) ELSE NoFacts,
                   Then(authorizeTaskActivityAccess(a, {"read"}),
                        getTaskActivitiesForTask(a, taskId)),
                   tasks[taskId].company # Co(a) \/ \E i \in rows : ForeignAct(a, i),
                   tasks[taskId].department # Dept(a))
    \/ LET rows == getTaskActivitiesRows(a, taskId)
       IN Reply("getTaskActivities", a,
                IF taskId \in DOMAIN tasks
                  THEN TaskFacts(a, tasks[taskId].taskType, taskId) ELSE NoFacts,
                Then(authorizeTaskActivityAccess(a, {"read"}), getTaskActivities(a, taskId)),
                \E i \in rows : ForeignAct(a, i), \E i \in rows : OutDeptAct(a, i))
    \/ Reply("getTaskActivity", a, ActFacts(a, id),
             Then(authorizeTaskActivityAccess(a, {"read"}), getTaskActivity(a, id)),
             ForeignAct(a, id), OutDeptAct(a, id))

CreateTaskActivity ==
  \E a \in Actors, taskId \in TaskIds :
    LET r == Then(authorizeTaskActivityAccess(a, {"create"}), createTaskActivity(a, taskId))
        id == seq.act + 1
    IN /\ Success(r) => id <= MaxActs
       /\ acts' = IF Success(r)
                    THEN acts @@ (id :> [task |-> taskId, performedBy |-> a, attachments |-> 0])
                    ELSE acts
       /\ notifs' = IF Success(r) /\ tasks[taskId].createdBy # a
                      THEN notifs \cup Notify({tasks[taskId].createdBy}, Co(a), taskId)
                      ELSE notifs
       /\ seq' = IF Success(r) THEN [seq EXCEPT !.act = id] ELSE seq
       /\ last' = Respond("createTaskActivity", a,
                          IF taskId \in DOMAIN tasks
                            THEN TaskFacts(a, tasks[taskId].taskType, taskId) ELSE NoFacts,
                          r, tasks[taskId].company # Co(a), tasks[taskId].department # Dept(a))
       /\ UNCHANGED <<deleting, superAdmins, companies, depts, users, tasks, rtasks>>

\* attachments is the length of the array in the body, -1 when the body has
\* none.
UpdateTaskActivity ==
  \E a \in Actors, id \in ActIds, attachments \in -1..MaxAttach :
    LET r == Then(authorizeTaskActivityAccess(a, {"update"}), updateTaskActivity(a, id))
    IN /\ acts' = IF Success(r) /\ attachments >= 0
                    THEN [acts EXCEPT ![id].attachments = attachments]
                    ELSE acts
       /\ last' = Respond("updateTaskActivity", a, ActFacts(a, id), r,
                          ForeignAct(a, id), OutDeptAct(a, id))
       /\ UNCHANGED <<deleting, superAdmins, companies, depts, users, tasks, rtasks, notifs, seq>>

AddTaskActivityAttachment ==
  \E a \in Actors, id \in ActIds :
    LET r == Then(authorizeTaskActivityAccess(a, {"update"}), addTaskActivityAttachment(a, id))
    IN /\ Success(r) => acts[id].attachments < MaxAttach
       /\ acts' = IF Success(r) THEN [acts EXCEPT ![id].attachments = @ + 1] ELSE acts
       /\ last' = Respond("addTaskActivityAttachment", a, ActFacts(a, id), r,
                          ForeignAct(a, id), OutDeptAct(a, id))
       /\ UNCHANGED <<deleting, superAdmins, companies, depts, users, tasks, rtasks, notifs, seq>>

RemoveTaskActivityAttachment ==
  \E a \in Actors, id \in ActIds, index \in 0..MaxAttach :
    LET r == Then(authorizeTaskActivityAccess(a, {"update"}),
                  removeTaskActivityAttachment(a, id, index))
    IN /\ acts' = IF Success(r) THEN [acts EXCEPT ![id].attachments = @ - 1] ELSE acts
       /\ last' = Respond("removeTaskActivityAttachment", a, ActFacts(a, id), r,
                          ForeignAct(a, id), OutDeptAct(a, id))
       /\ UNCHANGED <<deleting, superAdmins, companies, depts, users, tasks, rtasks, notifs, seq>>

DeleteTaskActivity ==
  \E a \in Actors, id \in ActIds :
    LET r == Then(authorizeTaskActivityAccess(a, {"delete"}), deleteTaskActivity(a, id))
    IN /\ acts' = IF Success(r) THEN Without(acts, id) ELSE acts
       /\ last' = Respond("deleteTaskActivity", a, ActFacts(a, id), r,
                          FALSE, OutDeptAct(a, id))
       /\ UNCHANGED <<deleting, superAdmins, companies, depts, users, tasks, rtasks, notifs, seq>>

\* ------------------------------------------------------------ routine tasks
\* performedTasks is the list of the isCompleted flags.
PerformedLists ==
  UNION {[1..n -> BOOLEAN] : n \in 0..MaxPerformed}

\* The pre("save") hook: Math.round(completed / total * 100).
calcProgress(performedTasks) ==
  LET total == Len(performedTasks)
      completed == Cardinality({i \in 1..total : performedTasks[i]})
  IN IF total > 0 THEN (200 * completed + total) \div (2 * total) ELSE 0

\* RoutineTask.findOne({_id, company, department for a non-SuperAdmin})
routineTaskQuery(a, id) ==
  /\ id \in DOMAIN rtasks
  /\ rtasks[id].company = Co(a)
  /\ Role(a) # "SuperAdmin" => rtasks[id].department = Dept(a)

RoutineFacts(a, id) ==
  IF id \in DOMAIN rtasks
    THEN Facts(TRUE, rtasks[id].company = Co(a), rtasks[id].department = Dept(a),
               FALSE, rtasks[id].performedBy = a)
    ELSE NoFacts

ForeignRoutine(a, rows) ==
  \E t \in rows :
    \/ rtasks[t].company # Co(a)
    \/ rtasks[t].performedBy \in DOMAIN users /\ users[rtasks[t].performedBy].company # Co(a)

OutDeptRoutine(a, rows) ==
  \E t \in rows : rtasks[t].department # Dept(a)

getRoutineTasksRows(a) ==
  {t \in DOMAIN rtasks :
     /\ rtasks[t].company = Co(a)
     /\ Role(a) # "SuperAdmin" => rtasks[t].department = Dept(a)}

getMyRoutineTasksRows(a) ==
  {t \in DOMAIN rtasks : rtasks[t].company = Co(a) /\ rtasks[t].performedBy = a}

getRoutineTask(a, id) ==
  IF routineTaskQuery(a, id) THEN Ok ELSE R(404, "ROUTINE_TASK_NOT_FOUND")

createRoutineTask(a, department) ==
  IF ~DeptInCompany(a, department)
    THEN R(404, "DEPARTMENT_NOT_FOUND")
  ELSE IF Role(a) # "SuperAdmin" /\ Dept(a) # department
    THEN R(403, "DEPARTMENT_ACCESS_DENIED")
  ELSE Created

updateRoutineTask(a, id) ==
  IF routineTaskQuery(a, id) THEN Ok ELSE R(404, "ROUTINE_TASK_NOT_FOUND")

updateRoutineTaskProgress(a, id, taskIndex) ==
  IF ~routineTaskQuery(a, id)
    THEN R(404, "ROUTINE_TASK_NOT_FOUND")
  ELSE IF taskIndex < 0 \/ taskIndex >= Len(rtasks[id].performedTasks)
    THEN R(400, "INVALID_TASK_INDEX")
  ELSE Ok

addRoutineTaskAttachment(a, id) ==
  IF routineTaskQuery(a, id) THEN Ok ELSE R(404, "ROUTINE_TASK_NOT_FOUND")

removeRoutineTaskAttachment(a, id, index) ==
  IF ~routineTaskQuery(a, id)
    THEN R(404, "ROUTINE_TASK_NOT_FOUND")
  ELSE IF index < 0 \/ index >= rtasks[id].attachments
    THEN R(400, "INVALID_ATTACHMENT_INDEX")
  ELSE Ok

deleteRoutineTask(a, id) ==
  IF routineTaskQuery(a, id) THEN Ok ELSE R(404, "ROUTINE_TASK_NOT_FOUND")

getRoutineTasksByDateRange(a, dates) ==
  IF ~dates THEN R(400, "DATE_RANGE_REQUIRED") ELSE Ok

\* ------------------------------------------------------ routine-task routes
\* The five GET routes.
RoutineTaskReads ==
  \E a \in Actors, id \in RoutineIds, dates \in BOOLEAN :
    \/ LET rows == getMyRoutineTasksRows(a)
       IN Reply("getMyRoutineTasks", a, NoFacts, Ok,
                ForeignRoutine(a, rows), OutDeptRoutine(a, rows))
    \/ LET rows == getRoutineTasksRows(a)
       IN Reply("getRoutineTaskStats", a, NoFacts, Ok,
                ForeignRoutine(a, rows), OutDeptRoutine(a, rows))
    \/ LET rows == getRoutineTasksRows(a)
       IN Reply("getRoutineTasksByDateRange", a, NoFacts, getRoutineTasksByDateRange(a, dates),
                ForeignRoutine(a, rows), OutDeptRoutine(a, rows))
    \/ LET rows == getRoutineTasksRows(a)
       IN Reply("getRoutineTasks", a, NoFacts,
                Then(authorizeTaskAccess(a, {"read"}, "RoutineTask", "get", 0), Ok),
                ForeignRoutine(a, rows), OutDeptRoutine(a, rows))
    \/ Reply("getRoutineTask", a, RoutineFacts(a, id),
             Then(authorizeTaskAccess(a, {"read"}, "RoutineTask", "get", 0),
                  getRoutineTask(a, id)),
             ForeignRoutine(a, {id}), OutDeptRoutine(a, {id}))

CreateRoutineTask ==
  \E a \in Actors, department \in DeptIds, performedTasks \in PerformedLists :
    LET r == Then(authorizeTaskAccess(a, {"create"}, "RoutineTask", "post", department),
                  createRoutineTask(a, department))
        id == seq.rtask + 1
    IN /\ Len(performedTasks) >= 1
       /\ Success(r) => id <= MaxRoutine
       /\ rtasks' = IF Success(r)
                      THEN rtasks @@ (id :> [company |-> Co(a), department |-> department,
                                             performedBy |-> a,
                                             performedTasks |-> performedTasks,
                                             progress |-> calcProgress(performedTasks),
                                             attachments |-> 0])
                      ELSE rtasks
       /\ seq' = IF Success(r) THEN [seq EXCEPT !.rtask = id] ELSE seq
       /\ last' = Respond("createRoutineTask", a, DeptFacts(a, department), r, FALSE,
                          department # Dept(a))
       /\ UNCHANGED <<deleting, superAdmins, companies, depts, users, tasks, acts, notifs>>

\* findByIdAndUpdate runs no save hook: progress stays as stored.
UpdateRoutineTask ==
  \E a \in Actors, id \in RoutineIds, given \in BOOLEAN, performedTasks \in PerformedLists :
    LET r == Then(authorizeTaskAccess(a, {"update"}, "RoutineTask", "put", 0),
                  updateRoutineTask(a, id))
    IN /\ ~given => performedTasks = <<>>
       /\ rtasks' = IF Success(r) /\ given
                      THEN [rtasks EXCEPT ![id].performedTasks = performedTasks]
                      ELSE rtasks
       /\ last' = Respond("updateRoutineTask", a, RoutineFacts(a, id), r,
                          ForeignRoutine(a, {id}), OutDeptRoutine(a, {id}))
       /\ UNCHANGED <<deleting, superAdmins, companies, depts, users, tasks, acts, notifs, seq>>

UpdateRoutineTaskProgress ==
  \E a \in Actors, id \in RoutineIds, taskIndex \in 0..MaxPerformed, isCompleted \in BOOLEAN :
    LET r == Then(authorizeTaskAccess(a, {"update"}, "RoutineTask", "put", 0),
                  updateRoutineTaskProgress(a, id, taskIndex))
        performedTasks == [rtasks[id].performedTasks EXCEPT ![taskIndex + 1] = isCompleted]
    IN /\ rtasks' = IF Success(r) /\ performedTasks # rtasks[id].performedTasks
                      THEN [rtasks EXCEPT ![id].performedTasks = performedTasks,
                                          ![id].progress = calcProgress(performedTasks)]
                      ELSE rtasks
       /\ last' = Respond("updateRoutineTaskProgress", a, RoutineFacts(a, id), r,
                          ForeignRoutine(a, {id}), OutDeptRoutine(a, {id}))
       /\ UNCHANGED <<deleting, superAdmins, companies, depts, users, tasks, acts, notifs, seq>>

AddRoutineTaskAttachment ==
  \E a \in Actors, id \in RoutineIds :
    LET r == Then(authorizeTaskAccess(a, {"update"}, "RoutineTask", "put", 0),
                  addRoutineTaskAttachment(a, id))
    IN /\ Success(r) => rtasks[id].attachments < MaxAttach
       /\ rtasks' = IF Success(r) THEN [rtasks EXCEPT ![id].attachments = @ + 1] ELSE rtasks
       /\ last' = Respond("addRoutineTaskAttachment", a, RoutineFacts(a, id), r,
                          FALSE, OutDeptRoutine(a, {id}))
       /\ UNCHANGED <<deleting, superAdmins, companies, depts, users, tasks, acts, notifs, seq>>

RemoveRoutineTaskAttachment ==
  \E a \in Actors, id \in RoutineIds, index \in 0..MaxAttach :
    LET r == Then(authorizeTaskAccess(a, {"update"}, "RoutineTask", "delete", 0),
                  removeRoutineTaskAttachment(a, id, index))
    IN /\ rtasks' = IF Success(r) THEN [rtasks EXCEPT ![id].attachments = @ - 1] ELSE rtasks
       /\ last' = Respond("removeRoutineTaskAttachment", a, RoutineFacts(a, id), r,
                          FALSE, OutDeptRoutine(a, {id}))
       /\ UNCHANGED <<deleting, superAdmins, companies, depts, users, tasks, acts, notifs, seq>>

DeleteRoutineTask ==
  \E a \in Actors, id \in RoutineIds :
    LET r == Then(authorizeTaskAccess(a, {"delete"}, "RoutineTask", "delete", 0),
                  deleteRoutineTask(a, id))
    IN /\ rtasks' = IF Success(r) THEN Without(rtasks, id) ELSE rtasks
       /\ last' = Respond("deleteRoutineTask", a, RoutineFacts(a, id), r,
                          FALSE, OutDeptRoutine(a, {id}))
       /\ UNCHANGED <<deleting, superAdmins, companies, depts, users, tasks, acts, notifs, seq>>

\* --------------------------------------------------------- notifications
\* The request names a stored notification or an id no notification has.
NoNotification == [user |-> 0, company |-> 0, task |-> 0, isRead |-> FALSE]

NotifFacts(a, n) ==
  IF n \in notifs THEN Facts(TRUE, n.company = Co(a), FALSE, FALSE, n.user = a)
  ELSE NoFacts

\* paths: the references the handler populates into the rows it sends.
ForeignNotifs(a, rows, paths) ==
  \E n \in rows :
    \/ n.company # Co(a)
    \/ "user" \in paths /\ n.user \in DOMAIN users /\ users[n.user].company # Co(a)
    \/ "task" \in paths /\ n.task \in DOMAIN tasks /\ tasks[n.task].company # Co(a)

\* getNotificationsRows without the recipient condition.
getNotificationsRows_CompanyWide(a) ==
  {n \in notifs : n.company = Co(a)}

\* query = {company}; query.user = req.user._id unless SuperAdmin.  The same
\* query serves the list, the statistics, the listing by type, mark-all-read
\* and delete-all.
getNotificationsRows(a) ==
  {n \in notifs : n.company = Co(a) /\ (Role(a) # "SuperAdmin" => n.user = a)}

getMyNotificationsRows(a) ==
  {n \in notifs : n.user = a /\ n.company = Co(a)}

\* findOne({_id, company, user unless SuperAdmin}); markNotificationAsRead,
\* markNotificationAsUnread and deleteNotification run the same query and
\* answer a miss alike.
getNotification(a, n) ==
  IF n \in getNotificationsRows(a) THEN Ok
  ELSE R(404, "NOTIFICATION_NOT_FOUND")

\* user: body.user, 0 when the body names no recipient (the bulk form, body.users,
\* stores one such notification per element).
createSystemNotification(a, user) ==
  IF user = 0 THEN R(400, "NOTIFICATION_RECIPIENT_REQUIRED")
  ELSE Created

NotificationReads ==
  \E a \in Actors, n \in notifs \cup {NoNotification} :
    \/ Reply("getMyNotifications", a, NoFacts, Ok,
             ForeignNotifs(a, getMyNotificationsRows(a), {"task"}), FALSE)
    \/ Reply("getNotificationStats", a, NoFacts, Ok,
             ForeignNotifs(a, getNotificationsRows(a), {}), FALSE)
    \/ Reply("getUnreadNotificationCount", a, NoFacts, Ok,
             ForeignNotifs(a, getMyNotificationsRows(a), {}), FALSE)
    \/ Reply("getNotificationsByType", a, NoFacts,
             Then(authorizeNotificationAccess(a, {"read"}, "get"), Ok),
             ForeignNotifs(a, getNotificationsRows(a), {"user", "task"}), FALSE)
    \/ Reply("getNotifications", a, NoFacts,
             Then(authorizeNotificationAccess(a, {"read"}, "get"), Ok),
             ForeignNotifs(a, getNotificationsRows(a), {"user", "task"}), FALSE)
    \/ Reply("getNotification", a, NotifFacts(a, n),
             Then(authorizeNotificationAccess(a, {"read"}, "get"), getNotification(a, n)),
             ForeignNotifs(a, {n}, {"user", "task"}), FALSE)

MarkNotificationAsRead ==
  \E a \in Actors, n \in notifs \cup {NoNotification} :
    LET r == Then(authorizeNotificationAccess(a, {"update"}, "put"), getNotification(a, n))
    IN /\ notifs' = IF Success(r) THEN (notifs \ {n}) \cup {[n EXCEPT !.isRead = TRUE]}
                    ELSE notifs
       /\ last' = Respond("markNotificationAsRead", a, NotifFacts(a, n), r,
                          ForeignNotifs(a, {n}, {"user"}), FALSE)
       /\ UNCHANGED <<deleting, superAdmins, companies, depts, users, tasks, rtasks, acts, seq>>

MarkNotificationAsUnread ==
  \E a \in Actors, n \in notifs \cup {NoNotification} :
    LET r == Then(authorizeNotificationAccess(a, {"update"}, "put"), getNotification(a, n))
    IN /\ notifs' = IF Success(r) THEN (notifs \ {n}) \cup {[n EXCEPT !.isRead = FALSE]}
                    ELSE notifs
       /\ last' = Respond("markNotificationAsUnread", a, NotifFacts(a, n), r,
                          ForeignNotifs(a, {n}, {"user"}), FALSE)
       /\ UNCHANGED <<deleting, superAdmins, companies, depts, users, tasks, rtasks, acts, seq>>

MarkAllNotificationsAsRead ==
  \E a \in Actors :
    LET r == Then(authorizeNotificationAccess(a, {"update"}, "put"), Ok)
        rows == {n \in getNotificationsRows(a) : ~n.isRead}
    IN /\ notifs' = IF Success(r)
                      THEN (notifs \ rows) \cup {[n EXCEPT !.isRead = TRUE] : n \in rows}
                      ELSE notifs
       /\ last' = Respond("markAllNotificationsAsRead", a, NoFacts, r,
                          ForeignNotifs(a, rows, {}), FALSE)
       /\ UNCHANGED <<deleting, superAdmins, companies, depts, users, tasks, rtasks, acts, seq>>

DeleteNotification ==
  \E a \in Actors, n \in notifs \cup {NoNotification} :
    LET r == Then(authorizeNotificationAccess(a, {"delete"}, "delete"), getNotification(a, n))
    IN /\ notifs' = IF Success(r) THEN notifs \ {n} ELSE notifs
       /\ last' = Respond("deleteNotification", a, NotifFacts(a, n), r,
                          ForeignNotifs(a, {n}, {}), FALSE)
       /\ UNCHANGED <<deleting, superAdmins, companies, depts, users, tasks, rtasks, acts, seq>>

DeleteAllNotifications ==
  \E a \in Actors :
    LET r == Then(authorizeNotificationAccess(a, {"delete"}, "delete"), Ok)
        rows == getNotificationsRows(a)
    IN /\ notifs' = IF Success(r) THEN notifs \ rows ELSE notifs
       /\ last' = Respond("deleteAllNotifications", a, NoFacts, r,
                          ForeignNotifs(a, rows, {}), FALSE)
       /\ UNCHANGED <<deleting, superAdmins, companies, depts, users, tasks, rtasks, acts, seq>>

\* POST /api/notifications/system.  Neither body.user nor body.task is looked
\* up: the notification is stored with the ids as sent and the actor's company.
CreateSystemNotification ==
  \E a \in Actors, user \in UserIds \cup {0}, task \in TaskIds \cup {0} :
    LET r == Then(authorizeRoles(a, {"SuperAdmin"}), createSystemNotification(a, user))
        n == [user |-> user, company |-> Co(a), task |-> task, isRead |-> FALSE]
    IN /\ Success(r) => Cardinality({m \in notifs : m.company = Co(a)}) < MaxNotifs
       /\ notifs' = IF Success(r) THEN notifs \cup {n} ELSE notifs
       /\ last' = Respond("createSystemNotification", a, NoFacts, r,
                          ForeignNotifs(a, {n}, {}), FALSE)
       /\ UNCHANGED <<deleting, superAdmins, companies, depts, users, tasks, rtasks, acts, seq>>

\* -------------------------------------------------------------- companies
CompanyFacts(a, id) ==
  IF id \in DOMAIN companies THEN Facts(TRUE, id = Co(a), FALSE, FALSE, FALSE)
  ELSE NoFacts

\* Every handler that takes :id compares it with req.user.company._id before
\* it looks the company up: getCompany, updateCompany,
\* updateCompanySubscription, deactivateCompany, activateCompany,
\* deleteCompany and getCompanyStats.
getCompany(a, id) ==
  IF Co(a) # id THEN R(403, "COMPANY_ACCESS_DENIED")
  ELSE IF id \notin DOMAIN companies THEN R(404, "COMPANY_NOT_FOUND")
  ELSE Ok

\* The body carries a name and an email no company has.
createCompany(a) ==
  Created

CompanyReads ==
  \E a \in Actors, id \in CompanyIds :
    \/ Reply("getMyCompany", a, CompanyFacts(a, Co(a)), Ok, FALSE, FALSE)
    \/ Reply("getCompany", a, CompanyFacts(a, id),
             Then(authorizeCompanyAccess(a, {"read"}, "get"), getCompany(a, id)),
             id # Co(a), FALSE)
    \/ Reply("getCompanyStats", a, CompanyFacts(a, id),
             Then(authorizeCompanyAccess(a, {"read"}, "get"), getCompany(a, id)),
             id # Co(a), FALSE)

\* POST /api/companies: the company saved is a new tenant, not the actor's.
CreateCompany ==
  \E a \in Actors :
    LET r == Then(authorizeCompanyAccess(a, {"create"}, "post"), createCompany(a))
        id == seq.company + 1
    IN /\ Success(r) => id <= MaxCompanies
       /\ companies' = IF Success(r) THEN companies @@ (id :> [isActive |-> TRUE])
                       ELSE companies
       /\ seq' = IF Success(r) THEN [seq EXCEPT !.company = id] ELSE seq
       /\ superAdmins' = IF Success(r) THEN superAdmins @@ (id :> {}) ELSE superAdmins
       /\ last' = Respond("createCompany", a, NoFacts, r, TRUE, FALSE)
       /\ UNCHANGED <<deleting, depts, users, tasks, rtasks, acts, notifs>>

\* PUT /:id and PUT /:id/subscription write fields the model does not hold.
UpdateCompany ==
  \E a \in Actors, id \in CompanyIds :
    \/ Reply("updateCompany", a, CompanyFacts(a, id),
             Then(authorizeCompanyAccess(a, {"update"}, "put"), getCompany(a, id)),
             id # Co(a), FALSE)
    \/ Reply("updateCompanySubscription", a, CompanyFacts(a, id),
             Then(authorizeCompanyAccess(a, {"update"}, "put"), getCompany(a, id)),
             id # Co(a), FALSE)

DeactivateCompany ==
  \E a \in Actors, id \in CompanyIds :
    LET r == Then(authorizeCompanyAccess(a, {"update"}, "put"), getCompany(a, id))
    IN /\ companies' = IF Success(r) THEN [companies EXCEPT ![id].isActive = FALSE]
                       ELSE companies
       /\ last' = Respond("deactivateCompany", a, CompanyFacts(a, id), r, id # Co(a), FALSE)
       /\ UNCHANGED <<deleting, superAdmins, depts, users, tasks, rtasks, acts, notifs, seq>>

ActivateCompany ==
  \E a \in Actors, id \in CompanyIds :
    LET r == Then(authorizeCompanyAccess(a, {"update"}, "put"), getCompany(a, id))
    IN /\ companies' = IF Success(r) THEN [companies EXCEPT ![id].isActive = TRUE]
                       ELSE companies
       /\ last' = Respond("activateCompany", a, CompanyFacts(a, id), r, id # Co(a), FALSE)
       /\ UNCHANGED <<deleting, superAdmins, depts, users, tasks, rtasks, acts, notifs, seq>>

\* The transaction deletes the company's departments and users, then the
\* company; its tasks, activities and notifications stay.
DeleteCompany ==
  \E a \in Actors, id \in CompanyIds :
    LET r == Then(authorizeCompanyAccess(a, {"delete"}, "delete"), getCompany(a, id))
    IN /\ companies' = IF Success(r) THEN Without(companies, id) ELSE companies
       /\ depts' = IF Success(r)
                     THEN [d \in {e \in DOMAIN depts : depts[e].company # id} |-> depts[d]]
                     ELSE depts
       /\ users' = IF Success(r)
                     THEN [u \in {v \in DOMAIN users : users[v].company # id} |-> users[u]]
                     ELSE users
       /\ superAdmins' = IF Success(r) THEN Without(superAdmins, id) ELSE superAdmins
       /\ last' = Respond("deleteCompany", a, CompanyFacts(a, id), r, id # Co(a), FALSE)
       /\ UNCHANGED <<deleting, tasks, rtasks, acts, notifs, seq>>

\* ------------------------------------------------------------ departments
getDepartmentsRows(a) ==
  {d \in DOMAIN depts : depts[d].company = Co(a)
                        /\ (Role(a) # "SuperAdmin" => d = Dept(a))}

\* getDepartment scoped to the company alone.
getDepartment_CompanyScope(a, id) ==
  IF ~DeptInCompany(a, id) THEN R(404, "DEPARTMENT_NOT_FOUND")
  ELSE Ok

\* getDepartment, getDepartmentStats and getDepartmentMembers.
getDepartment(a, id) ==
  IF Role(a) # "SuperAdmin" /\ Dept(a) # id THEN R(403, "DEPARTMENT_ACCESS_DENIED")
  ELSE IF ~DeptInCompany(a, id) THEN R(404, "DEPARTMENT_NOT_FOUND")
  ELSE Ok

\* User.find({_id: {$in: managers}, company, role: {$in: ["Admin", "Manager"]}})
validManagers(a, managers) ==
  {m \in managers : UserInCompany(a, m) /\ users[m].role \in {"Admin", "Manager"}}

\* hasManagers: the body carries a managers array.  The name, when the body
\* has one, is a name no department of the company bears.
updateDepartment(a, id, hasManagers, managers) ==
  IF ~DeptInCompany(a, id) THEN R(404, "DEPARTMENT_NOT_FOUND")
  ELSE IF hasManagers /\ managers # {} /\ validManagers(a, managers) # managers
    THEN R(400, "INVALID_MANAGERS")
  ELSE Ok

deleteDepartment(a, id) ==
  IF ~DeptInCompany(a, id) THEN R(404, "DEPARTMENT_NOT_FOUND")
  ELSE IF \E u \in DOMAIN users : users[u].department = id /\ users[u].company = Co(a)
    THEN R(400, "DEPARTMENT_HAS_USERS")
  ELSE Ok

addDepartmentManager(a, id, managerId) ==
  IF ~DeptInCompany(a, id) THEN R(404, "DEPARTMENT_NOT_FOUND")
  ELSE IF validManagers(a, {managerId}) = {} THEN R(400, "INVALID_MANAGER")
  ELSE IF managerId \in depts[id].managers THEN R(400, "MANAGER_ALREADY_EXISTS")
  ELSE Ok

removeDepartmentManager(a, id, managerId) ==
  IF ~DeptInCompany(a, id) THEN R(404, "DEPARTMENT_NOT_FOUND")
  ELSE IF managerId \notin depts[id].managers THEN R(400, "MANAGER_NOT_FOUND")
  ELSE Ok

\* The rows of one department: the document and its populated managers.
ForeignDept(a, id) ==
  /\ id \in DOMAIN depts
  /\ \/ depts[id].company # Co(a)
     \/ \E m \in depts[id].managers : m \in DOMAIN users /\ users[m].company # Co(a)

DepartmentReads ==
  \E a \in Actors, id \in DeptIds, department \in DeptIds \cup {0} :
    \/ LET rows == getDepartmentsRows(a)
       IN Reply("getDepartments", a, NoFacts,
                Then(authorizeDepartmentAccess(a, {"read"}, "get", department), Ok),
                \E d \in rows : ForeignDept(a, d), \E d \in rows : d # Dept(a))
    \/ Reply("getDepartment", a, DeptFacts(a, id),
             Then(authorizeDepartmentAccess(a, {"read"}, "get", 0), getDepartment(a, id)),
             ForeignDept(a, id), id # Dept(a))
    \/ Reply("getDepartmentStats", a, DeptFacts(a, id),
             Then(authorizeDepartmentAccess(a, {"read"}, "get", 0), getDepartment(a, id)),
             ForeignDept(a, id), id # Dept(a))
    \/ Reply("getDepartmentMembers", a, DeptFacts(a, id),
             Then(authorizeDepartmentAccess(a, {"read"}, "get", 0), getDepartment(a, id)),
             ForeignDept(a, id), id # Dept(a))

UpdateDepartment ==
  \E a \in Actors, id \in DeptIds, hasManagers \in BOOLEAN, m \in UserIds \cup {0} :
    LET managers == IF m = 0 THEN {} ELSE {m}
        r == Then(authorizeDepartmentAccess(a, {"update"}, "put", 0),
                  updateDepartment(a, id, hasManagers, managers))
    IN /\ depts' = IF Success(r) /\ hasManagers
                     THEN [depts EXCEPT ![id].managers = managers]
                     ELSE depts
       /\ last' = Respond("updateDepartment", a, DeptFacts(a, id), r,
                          ForeignDept(a, id), id # Dept(a))
       /\ UNCHANGED <<deleting, superAdmins, companies, users, tasks, rtasks, acts, notifs, seq>>

DeleteDepartment ==
  \E a \in Actors, id \in DeptIds :
    LET r == Then(authorizeDepartmentAccess(a, {"delete"}, "delete", 0),
                  deleteDepartment(a, id))
    IN /\ depts' = IF Success(r) THEN Without(depts, id) ELSE depts
       /\ last' = Respond("deleteDepartment", a, DeptFacts(a, id), r,
                          ForeignDept(a, id), id # Dept(a))
       /\ UNCHANGED <<deleting, superAdmins, companies, users, tasks, rtasks, acts, notifs, seq>>

AddDepartmentManager ==
  \E a \in Actors, id \in DeptIds, managerId \in UserIds :
    LET r == Then(authorizeDepartmentAccess(a, {"update"}, "put", 0),
                  addDepartmentManager(a, id, managerId))
    IN /\ depts' = IF Success(r)
                     THEN [depts EXCEPT ![id].managers = @ \cup {managerId}]
                     ELSE depts
       /\ last' = Respond("addDepartmentManager", a, DeptFacts(a, id), r,
                          ForeignDept(a, id), id # Dept(a))
       /\ UNCHANGED <<deleting, superAdmins, companies, users, tasks, rtasks, acts, notifs, seq>>

RemoveDepartmentManager ==
  \E a \in Actors, id \in DeptIds, managerId \in UserIds :
    LET r == Then(authorizeDepartmentAccess(a, {"update"}, "delete", 0),
                  removeDepartmentManager(a, id, managerId))
    IN /\ depts' = IF Success(r)
                     THEN [depts EXCEPT ![id].managers = @ \ {managerId}]
                     ELSE depts
       /\ last' = Respond("removeDepartmentManager", a, DeptFacts(a, id), r,
                          ForeignDept(a, id), id # Dept(a))
       /\ UNCHANGED <<deleting, superAdmins, companies, users, tasks, rtasks, acts, notifs, seq>>

NextUser ==
  \/ GetUsers
  \/ GetUser
  \/ GetMyProfile
  \/ GetUserStats
  \/ CreateUser
  \/ UpdateUser
  \/ UpdatePassword
  \/ UpdateProfilePicture
  \/ DeactivateUser
  \/ ActivateUser
  \/ DeleteUser

SpecUser == Init /\ [][NextUser]_vars

NextTask ==
  \/ CreateUser
  \/ ReassignUser
  \/ GetAssignedTasks
  \/ GetAssignedTask
  \/ GetMyAssignedTasks
  \/ GetAssignedTaskStats
  \/ CreateAssignedTask
  \/ UpdateAssignedTask
  \/ DeleteAssignedTask

SpecTask == Init /\ [][NextTask]_vars

NextProject ==
  \/ CreateUser
  \/ ReassignUser
  \/ ProjectTaskReads
  \/ CreateProjectTask
  \/ UpdateProjectTask
  \/ UpdateProjectTaskStatus
  \/ DeleteProjectTask

SpecProject == Init /\ [][NextProject]_vars

\* Reassignment of a task, as PUT /api/assigned-tasks/:id with assignedTo.
NextActivity ==
  \/ CreateUser
  \/ CreateAssignedTask
  \/ UpdateAssignedTask
  \/ DeleteAssignedTask
  \/ TaskActivityReads
  \/ CreateTaskActivity
  \/ UpdateTaskActivity
  \/ AddTaskActivityAttachment
  \/ RemoveTaskActivityAttachment
  \/ DeleteTaskActivity

SpecActivity == Init /\ [][NextActivity]_vars

NextRoutine ==
  \/ CreateUser
  \/ ReassignUser
  \/ RoutineTaskReads
  \/ CreateRoutineTask
  \/ UpdateRoutineTask
  \/ UpdateRoutineTaskProgress
  \/ AddRoutineTaskAttachment
  \/ RemoveRoutineTaskAttachment
  \/ DeleteRoutineTask

SpecRoutine == Init /\ [][NextRoutine]_vars

NextNotif ==
  \/ CreateUser
  \/ NotificationReads
  \/ MarkNotificationAsRead
  \/ MarkNotificationAsUnread
  \/ MarkAllNotificationsAsRead
  \/ DeleteNotification
  \/ DeleteAllNotifications
  \/ CreateSystemNotification

SpecNotif == Init /\ [][NextNotif]_vars

\* The department router, with the user creations and moves that decide
\* which department is an actor's own.
NextDept ==
  \/ CreateUser
  \/ ReassignUser
  \/ CreateDepartment
  \/ DepartmentReads
  \/ UpdateDepartment
  \/ DeleteDepartment
  \/ AddDepartmentManager
  \/ RemoveDepartmentManager

SpecDept == Init /\ [][NextDept]_vars

\* The two task creations the department-level roles share, with the user
\* creations and moves that decide the actor's department.
NextCreate ==
  \/ CreateUser
  \/ ReassignUser
  \/ CreateAssignedTask
  \/ CreateProjectTask

SpecCreate == Init /\ [][NextCreate]_vars

\* Assigned tasks and the departments they name: a department without users
\* can be deleted while tasks still refer to it.
NextOrphan ==
  \/ CreateUser
  \/ ReassignUser
  \/ DeleteDepartment
  \/ CreateAssignedTask
  \/ GetAssignedTask
  \/ DeleteAssignedTask

SpecOrphan == Init /\ [][NextOrphan]_vars

\* Completion of assigned tasks, with the creations and moves that decide
\* who is assigned and whose department a task is in.
NextComplete ==
  \/ CreateUser
  \/ ReassignUser
  \/ CreateAssignedTask
  \/ CompleteTask
  \/ UncompleteTask

SpecComplete == Init /\ [][NextComplete]_vars

\* Concurrent deleteUser requests: each request's checks and writes are
\* separate steps that interleave with those of the others.
NextDelete ==
  \/ CreateUser
  \/ DeleteUserCheck
  \/ DeleteUserWrite

SpecDelete == Init /\ [][NextDelete]_vars

\* Assigned tasks written while users move and departments go.
NextAssign ==
  \/ ReassignUser
  \/ DeleteDepartment
  \/ CreateAssignedTask
  \/ UpdateAssignedTask

SpecAssign == Init /\ [][NextAssign]_vars

\* Status writes on tasks that have, or get, activities.
NextStatus ==
  \/ CreateAssignedTask
  \/ UpdateAssignedTask
  \/ CreateProjectTask
  \/ UpdateProjectTaskStatus
  \/ CreateTaskActivity

SpecStatus == Init /\ [][NextStatus]_vars

\* Registration and the user administration that follows it.
NextAdmins ==
  \/ RegisterUser
  \/ CreateUser
  \/ UpdateUser
  \/ DeactivateUser
  \/ DeleteUser

SpecAdmins == Init /\ [][NextAdmins]_vars

\* The whole API (server.js mounts the eight routers), as a SuperAdmin uses
\* it.  Requests are explored from the states of a session that builds up one
\* family of resources: the last request was a SuperAdmin's and added a
\* document or an element of a document's list, and the collections changed
\* since registration lie within one family.  The answer to any other request
\* is part of the behaviour; no request follows it.
Store(s, q) ==
  [companies |-> <<s.companies, q.company>>, depts |-> <<s.depts, q.dept>>,
   users |-> <<s.users, q.user>>, tasks |-> <<s.tasks, q.task>>,
   rtasks |-> <<s.rtasks, q.rtask>>, acts |-> <<s.acts, q.act>>,
   notifs |-> <<s.notifs, 0>>]

\* The collections that hold a change or have handed out an id.
Changed ==
  LET now == Store([companies |-> companies, depts |-> depts, users |-> users,
                    tasks |-> tasks, rtasks |-> rtasks, acts |-> acts,
                    notifs |-> notifs], seq)
      registered == Store(InitialStore, InitialStore.seq)
  IN {c \in DOMAIN now : now[c] # registered[c]}

\* Managers are appointed among new accounts, in the departments as registered.
StaffOnly ==
  /\ \A u \in DOMAIN InitialStore.users : u \in DOMAIN users /\ users[u] = InitialStore.users[u]
  /\ DOMAIN depts = DOMAIN InitialStore.depts

\* The notifications are the ones the task handlers sent, as they were sent.
TaskNotifsOnly ==
  \A n \in notifs \ InitialStore.notifs :
    /\ n.task \in DOMAIN tasks /\ tasks[n.task].company = n.company
    /\ n.user \in DOMAIN users /\ users[n.user].company = n.company
    /\ ~n.isRead

SuperAdminSession ==
  /\ last.role = "SuperAdmin"
  /\ \/ last.status = 201
     \/ /\ last.status = 200
        /\ last.ep \in {"addDepartmentManager", "addTaskActivityAttachment",
                        "addRoutineTaskAttachment"}
  /\ \/ Changed \subseteq {"users"}
     \/ Changed \subseteq {"depts"}
     \/ Changed \subseteq {"users", "depts"} /\ StaffOnly
     \/ Changed \subseteq {"companies"}
     \/ Changed \subseteq {"rtasks"}
     \/ Changed \subseteq {"notifs"}
     \/ Changed \subseteq {"tasks", "acts"}
     \/ Changed \subseteq {"tasks", "notifs"} /\ TaskNotifsOnly

NextSuperAdmin ==
  \/ SuperAdminSession /\ GetUsers
  \/ SuperAdminSession /\ GetUser
  \/ SuperAdminSession /\ GetMyProfile
  \/ SuperAdminSession /\ GetUserStats
  \/ SuperAdminSession /\ CreateUser
  \/ SuperAdminSession /\ UpdateUser
  \/ SuperAdminSession /\ UpdatePassword
  \/ SuperAdminSession /\ UpdateProfilePicture
  \/ SuperAdminSession /\ DeactivateUser
  \/ SuperAdminSession /\ ActivateUser
  \/ SuperAdminSession /\ DeleteUser
  \/ SuperAdminSession /\ CompanyReads
  \/ SuperAdminSession /\ CreateCompany
  \/ SuperAdminSession /\ UpdateCompany
  \/ SuperAdminSession /\ DeactivateCompany
  \/ SuperAdminSession /\ ActivateCompany
  \/ SuperAdminSession /\ DeleteCompany
  \/ SuperAdminSession /\ DepartmentReads
  \/ SuperAdminSession /\ CreateDepartment
  \/ SuperAdminSession /\ UpdateDepartment
  \/ SuperAdminSession /\ DeleteDepartment
  \/ SuperAdminSession /\ AddDepartmentManager
  \/ SuperAdminSession /\ RemoveDepartmentManager
  \/ SuperAdminSession /\ GetAssignedTasks
  \/ SuperAdminSession /\ GetAssignedTask
  \/ SuperAdminSession /\ GetMyAssignedTasks
  \/ SuperAdminSession /\ GetAssignedTaskStats
  \/ SuperAdminSession /\ CreateAssignedTask
  \/ SuperAdminSession /\ UpdateAssignedTask
  \/ SuperAdminSession /\ CompleteTask
  \/ SuperAdminSession /\ UncompleteTask
  \/ SuperAdminSession /\ DeleteAssignedTask
  \/ SuperAdminSession /\ ProjectTaskReads
  \/ SuperAdminSession /\ CreateProjectTask
  \/ SuperAdminSession /\ UpdateProjectTask
  \/ SuperAdminSession /\ UpdateProjectTaskStatus
  \/ SuperAdminSession /\ DeleteProjectTask
  \/ SuperAdminSession /\ RoutineTaskReads
  \/ SuperAdminSession /\ CreateRoutineTask
  \/ SuperAdminSession /\ UpdateRoutineTask
  \/ SuperAdminSession /\ UpdateRoutineTaskProgress
  \/ SuperAdminSession /\ AddRoutineTaskAttachment
  \/ SuperAdminSession /\ RemoveRoutineTaskAttachment
  \/ SuperAdminSession /\ DeleteRoutineTask
  \/ SuperAdminSession /\ TaskActivityReads
  \/ SuperAdminSession /\ CreateTaskActivity
  \/ SuperAdminSession /\ UpdateTaskActivity
  \/ SuperAdminSession /\ AddTaskActivityAttachment
  \/ SuperAdminSession /\ RemoveTaskActivityAttachment
  \/ SuperAdminSession /\ DeleteTaskActivity
  \/ SuperAdminSession /\ NotificationReads
  \/ SuperAdminSession /\ MarkNotificationAsRead
  \/ SuperAdminSession /\ MarkNotificationAsUnread
  \/ SuperAdminSession /\ MarkAllNotificationsAsRead
  \/ SuperAdminSession /\ DeleteNotification
  \/ SuperAdminSession /\ DeleteAllNotifications
  \/ SuperAdminSession /\ CreateSystemNotification

SpecSuperAdmin == Init /\ [][NextSuperAdmin]_vars

\* ------------------------------------------------------------------ claims
Denied(l) == l.status \in {401, 403}

\* C1: a request whose target belongs to another company than the actor's is
\* denied with COMPANY_ACCESS_DENIED, whatever the role, the resource and the
\* operation, and with no other reason code and no not-found answer.
C1_CrossCompanyDeniedWithCompanyCode ==
  (last.exists /\ ~last.sameCo)
    => (last.status = 403 /\ last.code = "COMPANY_ACCESS_DENIED")

AssignedTaskEps ==
  {"getAssignedTasks", "getAssignedTask", "getMyAssignedTasks", "getAssignedTaskStats",
   "updateAssignedTask", "deleteAssignedTask"}

\* C4: an Admin or Manager reads, updates or deletes an AssignedTask of the own
\* company exactly when the task's department is the actor's current one; for a
\* task of another department every endpoint denies with TASK_ACCESS_DENIED and
\* no endpoint sends such a task back.
C4_ManagerAssignedTaskOwnDepartmentOnly ==
  (last.role \in {"Admin", "Manager"} /\ last.ep \in AssignedTaskEps)
    => /\ ~last.outDept
       /\ (last.exists /\ last.sameCo)
            => /\ last.sameDept <=> ~Denied(last)
               /\ ~last.sameDept => last.code = "TASK_ACCESS_DENIED"

\* C5: a User reads an AssignedTask of the own company exactly when the User is
\* among the task's assignees; the department is not consulted.
C5_UserReadsAssignedTaskIffAssigned ==
  (last.ep = "getAssignedTask" /\ last.role = "User" /\ last.exists /\ last.sameCo)
    => /\ last.assigned <=> last.status = 200
       /\ ~last.assigned => (last.status = 403 /\ last.code = "TASK_ACCESS_DENIED")

\* A User who was moved to another department after the assignment reads the
\* task.
C5_Witness ==
  /\ last.ep = "getAssignedTask"
  /\ last.role = "User"
  /\ last.assigned
  /\ ~last.sameDept
  /\ last.status = 200

UserUpdateEps ==
  {"updateUser", "updatePassword", "updateProfilePicture", "deactivateUser", "activateUser"}

ProjectTaskEps ==
  {"getProjectTasks", "getProjectTask", "getProjectTaskStats", "getProjectTasksByClient",
   "createProjectTask", "updateProjectTask", "updateProjectTaskStatus",
   "deleteProjectTask"}

\* C6: every ProjectTask operation a User sends (list, single read, statistics,
\* by-client, create, update, status update, delete) is denied, whatever the
\* target and the body; it sends back no project task and leaves tasks and
\* notifications as they were.
C6_UserDeniedEveryProjectTaskOperation ==
  [][(last'.ep \in ProjectTaskEps /\ last'.role = "User")
       => /\ last'.status = 403
          /\ tasks' = tasks
          /\ notifs' = notifs]_vars

\* A User was refused the project task of the own department.
C6_Witness ==
  /\ last.ep = "getProjectTask"
  /\ last.role = "User"
  /\ last.exists /\ last.sameCo /\ last.sameDept
  /\ last.status = 403

ActivityWriteEps ==
  {"updateTaskActivity", "addTaskActivityAttachment", "removeTaskActivityAttachment",
   "deleteTaskActivity"}

\* C9: a User changes or deletes a TaskActivity (update, add attachment,
\* remove attachment, delete) only if the User wrote it and its task is an
\* AssignedTask now assigned to the User; an Admin or Manager does so when, and
\* only when, the task's department is the actor's department.
C9_ActivityWritesNeedAuthorAndAssignment ==
  last.ep \in ActivityWriteEps =>
    /\ (last.role = "User" /\ Success(last)) => (last.self /\ last.assigned)
    /\ last.role \in {"Admin", "Manager"} =>
         /\ Success(last) => last.sameDept
         /\ last.sameDept => ~Denied(last)

RoutineTaskEps ==
  {"getMyRoutineTasks", "getRoutineTaskStats", "getRoutineTasksByDateRange",
   "getRoutineTasks", "getRoutineTask", "createRoutineTask", "updateRoutineTask",
   "updateRoutineTaskProgress", "addRoutineTaskAttachment",
   "removeRoutineTaskAttachment", "deleteRoutineTask"}

\* C10: for an Admin, Manager or User, a routine-task request succeeds on a
\* task (or, for create, a department) only when its department is the
\* actor's current department, and no routine-task endpoint sends back or
\* changes a routine task of another department.
C10_RoutineTaskOwnDepartmentOnly ==
  (last.ep \in RoutineTaskEps /\ last.role # "SuperAdmin") =>
    /\ ~last.outDept
    /\ (Success(last) /\ last.exists) => last.sameDept

\* C8: a request to create a notification is answered 403
\* NOTIFICATION_ACCESS_DENIED whatever the role and the body, and it stores
\* nothing.
C8_NotificationCreateDeniedForEveryRole ==
  [][last'.ep = "createSystemNotification"
       => /\ last'.status = 403
          /\ last'.code = "NOTIFICATION_ACCESS_DENIED"
          /\ notifs' = notifs]_vars

\* C2: no response carries, and no write touches, a document of a company
\* other than the actor's, references populated into the rows included.
C2_NothingOfAnotherCompany ==
  ~last.foreign

\* The endpoints that answer 403 when the company or the task named by the
\* request is not one the actor's company holds.
CompanyGuardedEps ==
  {"getCompany", "getCompanyStats", "updateCompany", "updateCompanySubscription",
   "deactivateCompany", "activateCompany", "deleteCompany", "getTaskActivities"}

NotificationItemEps ==
  {"getNotification", "markNotificationAsRead", "markNotificationAsUnread",
   "deleteNotification"}

NotificationBulkEps ==
  {"markAllNotificationsAsRead", "deleteAllNotifications"}

\* C11: for an actor who is not a SuperAdmin, reading, marking and deleting one
\* notification succeed only on a notification addressed to the actor, and
\* mark-all-read and delete-all leave every notification addressed to
\* somebody else as it was.
C11_NotificationsOfOthersUntouched ==
  [][last'.role # "SuperAdmin" =>
       /\ (last'.ep \in NotificationItemEps /\ Success(last')) => last'.self
       /\ last'.ep \in NotificationItemEps \cup NotificationBulkEps =>
            \E a \in DOMAIN users :
              /\ users[a].role = last'.role
              /\ \A n \in notifs : n.user # a => n \in notifs'
              /\ \A n \in notifs' \ notifs : n.user = a]_vars

\* A User has deleted all the own notifications while the company holds a
\* notification addressed to somebody else.
C11_Witness ==
  /\ last.ep = "deleteAllNotifications" /\ last.role = "User" /\ last.status = 200
  /\ \E n \in notifs : n.company = 1

\* C12: for an actor who is not a SuperAdmin, POST /api/users and
\* DELETE /api/users/:id are answered 403 INSUFFICIENT_PERMISSIONS and leave
\* the users as they were; GET /api/users/:id is answered 200 for an Admin or
\* Manager exactly when the target is a user of the actor's department, for a
\* User exactly when the target is the actor, and 403 USER_ACCESS_DENIED
\* otherwise.
C12_UserResourceForNonSuperAdmin ==
  [][last'.role # "SuperAdmin" =>
       /\ last'.ep \in {"createUser", "deleteUser"} =>
            /\ last'.status = 403 /\ last'.code = "INSUFFICIENT_PERMISSIONS"
            /\ users' = users
       /\ last'.ep = "getUser" =>
            IF \/ last'.role \in {"Admin", "Manager"} /\ last'.sameDept
               \/ last'.role = "User" /\ last'.self
              THEN last'.status = 200
              ELSE last'.status = 403 /\ last'.code = "USER_ACCESS_DENIED"]_vars

\* A Manager has read a colleague of the own department.
C12_Witness ==
  /\ last.ep = "getUser" /\ last.role = "Manager"
  /\ last.sameDept /\ ~last.self /\ last.status = 200

DepartmentWriteEps ==
  {"createDepartment", "updateDepartment", "deleteDepartment",
   "addDepartmentManager", "removeDepartmentManager"}

DepartmentItemReadEps ==
  {"getDepartment", "getDepartmentStats", "getDepartmentMembers"}

TaskCreateEps ==
  {"createAssignedTask", "createProjectTask"}

\* C14: POST /api/assigned-tasks and POST /api/project-tasks are let through
\* (not answered 401/403) for an Admin or Manager exactly when the body's
\* department is the actor's own department, and are refused for role User
\* whatever the department; a refused create leaves tasks and notifications
\* as they were.
C14_TaskCreateByDepartment ==
  [][last'.ep \in TaskCreateEps =>
       /\ last'.role \in {"Admin", "Manager"} => (~Denied(last') <=> last'.sameDept)
       /\ last'.role = "User" => Denied(last')
       /\ Denied(last') => tasks' = tasks /\ notifs' = notifs]_vars

\* A Manager has created an assigned task in the own department, and the
\* assignee's notification is stored.
C14_Witness ==
  /\ last.ep = "createAssignedTask" /\ last.role = "Manager"
  /\ last.sameDept /\ last.status = 201
  /\ \E n \in notifs : n.company = 1 /\ n.task \in DOMAIN tasks

AssignedTaskItemEps ==
  {"getAssignedTask", "updateAssignedTask", "deleteAssignedTask"}

\* The answer of the assigned-task router to a request of actor a on
\* /api/assigned-tasks/:id, as the routes chain authorizeTaskAccess and the
\* handler (the update with a body that names no assignees).
AssignedTaskRequest(ep, a, id) ==
  CASE ep = "getAssignedTask" ->
         Then(authorizeTaskAccess(a, {"read"}, "AssignedTask", "get", 0),
              getAssignedTask(a, id))
    [] ep = "updateAssignedTask" ->
         Then(authorizeTaskAccess(a, {"update"}, "AssignedTask", "put", 0),
              updateAssignedTask(a, id, Undefined, FALSE, {}))
    [] ep = "deleteAssignedTask" ->
         Then(authorizeTaskAccess(a, {"delete"}, "AssignedTask", "delete", 0),
              deleteAssignedTask(a, id))

\* Allowed, denied with a reason, or an internal error.
Decision(r) ==
  IF Denied(r) THEN <<"denied", r.code>>
  ELSE IF r.status = 500 THEN <<"error", r.code>>
  ELSE <<"allowed">>

\* C16: the access decision is a function of the actor, the operation, the
\* resource type and the target's scope alone.  Across every request served
\* between two evaluations, an actor whose own record is unchanged gets the
\* same decision on an assigned task whose document (company, department,
\* assignees, creator) is unchanged, whatever else the request wrote.
C16_DecisionDependsOnScopeOnly ==
  [][\A a \in Actors, id \in DOMAIN tasks, ep \in AssignedTaskItemEps :
       (/\ a \in Actors' /\ users'[a] = users[a]
        /\ id \in DOMAIN tasks' /\ tasks'[id] = tasks[id])
         => Decision(AssignedTaskRequest(ep, a, id))'
              = Decision(AssignedTaskRequest(ep, a, id))]_vars

\* C17: the access check of a request on a resource that exists never ends in
\* an internal error: no answer is AUTHORIZATION_ERROR, and none is the
\* TypeError of reading a field of a referenced document that is gone.  (The
\* schema's ValidationError on a write is not an outcome of the access check.)
C17_NoInternalError ==
  last.exists => last.code \notin {"AUTHORIZATION_ERROR", "TypeError"}

\* C18: the lists of assigned tasks have the scope of the single-item read.
\* For every actor and stored task, GET /api/assigned-tasks (no filter)
\* returns the task exactly when GET /api/assigned-tasks/:id by the same
\* actor is answered 200, and GET /api/assigned-tasks/my-tasks returns no
\* task that the single-item read refuses.
C18_ListsMatchItemReads ==
  \A a \in Actors, t \in DOMAIN tasks :
    LET allowed == Success(AssignedTaskRequest("getAssignedTask", a, t))
    IN /\ t \in getAssignedTasksRows(a, 0) <=> allowed
       /\ t \in getMyAssignedTasksRows(a) => allowed

CompletionEps ==
  {"completeTask", "uncompleteTask"}

\* C19: PUT /api/assigned-tasks/:id/complete and /uncomplete on an assigned
\* task of the actor's company are answered 200 for a User exactly when the
\* task is assigned to the User, for an Admin or Manager exactly when the
\* task is in the actor's department, and for a SuperAdmin always; every
\* other such request is answered 403 TASK_ACCESS_DENIED.
C19_CompletionByRole ==
  (last.ep \in CompletionEps /\ last.exists /\ last.sameCo) =>
    IF \/ last.role = "SuperAdmin"
       \/ last.role \in {"Admin", "Manager"} /\ last.sameDept
       \/ last.role = "User" /\ last.assigned
      THEN last.status = 200
      ELSE last.status = 403 /\ last.code = "TASK_ACCESS_DENIED"

\* C20: PUT /api/users/:id/deactivate and PUT /api/users/:id/activate sent by
\* an actor who is not a SuperAdmin are refused (401/403) for every target
\* id, the actor's own included, and leave every user's isActive flag as it
\* was.
C20_ActivationSuperAdminOnly ==
  [][(last'.ep \in {"deactivateUser", "activateUser"} /\ last'.role # "SuperAdmin")
       => (Denied(last') /\ users' = users)]_vars

\* C21: deleteUser never removes the last SuperAdmin of a company: under
\* every interleaving of the requests' checks and writes, each company keeps
\* at least one user with role SuperAdmin.
C21_SuperAdminRemains ==
  \A c \in DOMAIN companies :
    \E u \in DOMAIN users : users[u].company = c /\ users[u].role = "SuperAdmin"

\* C22: PUT /api/users/:id sent by an actor who is not a SuperAdmin leaves
\* the role, department, isActive and company of every user as they were,
\* whatever the body carries for them.
C22_SelfUpdateKeepsScopeFields ==
  [][(last'.ep = "updateUser" /\ last'.role # "SuperAdmin") => users' = users]_vars

\* A Manager's update of the own account has been answered 200.
C22_Witness ==
  /\ last.ep = "updateUser" /\ last.role = "Manager" /\ last.self
  /\ last.status = 200

\* C23: registerUser is all-or-nothing.  Answered 201, it has added a
\* company, a department of that company and a SuperAdmin whose company and
\* department are these two, listed in the company's superAdmins and the
\* department's managers; answered with an error, it has left companies,
\* departments, users and superAdmins as they were.
C23_RegisterAllOrNothing ==
  [][last'.ep = "registerUser" =>
       IF last'.status = 201
         THEN \E c \in DOMAIN companies' \ DOMAIN companies,
                 d \in DOMAIN depts' \ DOMAIN depts,
                 u \in DOMAIN users' \ DOMAIN users :
                /\ depts'[d].company = c
                /\ users'[u].company = c /\ users'[u].department = d
                /\ users'[u].role = "SuperAdmin"
                /\ u \in superAdmins'[c] /\ u \in depts'[d].managers
         ELSE /\ companies' = companies /\ depts' = depts
              /\ users' = users /\ superAdmins' = superAdmins]_vars

\* A registration has failed after its first writes.
C23_Witness ==
  /\ last.ep = "registerUser" /\ last.status # 201
  /\ DOMAIN companies = DOMAIN InitialStore.companies

\* C27: whatever createUser, updateUser, deactivateUser and deleteUser
\* requests have been served, every company has an active SuperAdmin.
C27_ActiveSuperAdminRemains ==
  \A c \in DOMAIN companies :
    \E u \in DOMAIN users :
      /\ users[u].company = c /\ users[u].role = "SuperAdmin"
      /\ users[u].isActive

\* C28: a company's superAdmins list holds exactly the company's users
\* whose role is SuperAdmin.
C28_SuperAdminsListMatchesRoles ==
  \A c \in DOMAIN companies :
    superAdmins[c] = {u \in DOMAIN users :
                        users[u].company = c /\ users[u].role = "SuperAdmin"}

\* C24: a createAssignedTask or updateAssignedTask request that is neither
\* refused nor answered 404, and whose assignedTo names someone who is not an
\* active user of the actor's company and the task's department, is answered
\* INVALID_ASSIGNED_USERS.
C24_InvalidAssigneesAnswer ==
  /\ \A a \in Actors, department \in DeptIds, assignedTo \in (SUBSET UserIds) \ {{}} :
       LET r == Then(authorizeTaskAccess(a, {"create"}, "AssignedTask", "post", department),
                     createAssignedTask(a, department, assignedTo))
       IN (/\ ~Denied(r) /\ r.status # 404
           /\ validAssignees(a, department, assignedTo) # assignedTo)
            => r.code = "INVALID_ASSIGNED_USERS"
  /\ \A a \in Actors, id \in DOMAIN tasks, assignedTo \in (SUBSET UserIds) \ {{}} :
       LET r == Then(authorizeTaskAccess(a, {"update"}, "AssignedTask", "put", 0),
                     updateAssignedTask(a, id, Undefined, TRUE, assignedTo))
       IN (/\ ~Denied(r) /\ r.status # 404
           /\ validAssignees(a, tasks[id].department, assignedTo) # assignedTo)
            => r.code = "INVALID_ASSIGNED_USERS"

\* C25: every stored routine task's progress is the rounded percentage of
\* its completed performedTasks (0 when it has none), between 0 and 100.
C25_ProgressMatchesPerformedTasks ==
  \A t \in DOMAIN rtasks :
    /\ rtasks[t].progress = calcProgress(rtasks[t].performedTasks)
    /\ rtasks[t].progress \in 0..100

\* C26: when a request changes the status of a task that has at least one
\* activity, the status stored is not "To Do".
C26_NoToDoWithActivities ==
  [][\A t \in DOMAIN tasks \cap DOMAIN tasks' :
       (/\ tasks'[t].status # tasks[t].status
        /\ \E i \in DOMAIN acts' : acts'[i].task = t)
         => tasks'[t].status # "To Do"]_vars

====
